---- MODULE Spec2Model ----
(***************************************************************************)
(* A model of the concierge request handler of api/ask.js: the two         *)
(* process-wide caches (globalThis.__kbCache, globalThis.__vecCache), the  *)
(* handler's path from the request to its response, and the calls it makes *)
(* to its collaborators (the Webflow CMS, the embedding service, the       *)
(* transcription service).                                                 *)
(*                                                                         *)
(* Conventions.                                                            *)
(*  - A JavaScript string is a sequence of one-character strings; a fixed  *)
(*    user-facing message is a sequence holding the message as one piece.  *)
(*  - A value that may be null/undefined is a sequence of length 0 (null)  *)
(*    or 1 (the value).                                                    *)
(*  - A handler runs atomically between two awaits of real I/O; an await   *)
(*    of I/O is a position (pc) of the request, and the outcome of the     *)
(*    I/O is chosen when the request resumes.                              *)
(*  - The embedding service is external. It is modelled as a deterministic *)
(*    service that counts the letters "a" and "b" of its input, so that    *)
(*    the text the handler sends decides the vector it gets back.          *)
(***************************************************************************)
EXTENDS Integers, Sequences, FiniteSets, TLC

VARIABLES
    now,        \* Date.now(), in milliseconds
    ticks,      \* the index of the instant the clock is at (bounds the model)
    hasEnv,     \* WEBFLOW_TOKEN, WEBFLOW_SITE_ID and WEBFLOW_COLLECTION_ID are all set
    build,      \* the handler deployed: "ask.js", or "part_001" with its debug mode
    DEBUG,      \* part_001 line 8: process.env.DEBUG is "true"
    kbCache,    \* globalThis.__kbCache  : [at, kb]
    vecCache,   \* globalThis.__vecCache : [at, model, count, vectors]
    pc,         \* per request: the await it is suspended at, or "idle" / "done"
    loc,        \* per request: the handler's local variables
    res,        \* per request: the response sent (status 0: none yet)
    calls,      \* per request: the calls made to the collaborators
    lastEnsure, \* how the last ensureVectors call that has ended, ended
    args,       \* a call of cosine on its own: its arguments <<a, b>>
    result      \* ... and what it returned (NULL: not called yet)

vars == <<now, ticks, hasEnv, build, DEBUG, kbCache, vecCache, pc, loc, res, calls,
          lastEnsure, args, result>>

----------------------------------------------------------------------------
(* Bounds of the model *)

MaxTicks == 4

Procs == {"r1", "r2"}

\* The requests served one at a time (section 5: single request at a time).
Serial == {"r1"}

----------------------------------------------------------------------------
(* Configuration: api/ask.js lines 11-20 *)

EMBEDDING_MODEL == "text-embedding-3-small"

\* A model identifier left in globalThis.__vecCache by an earlier evaluation
\* of the module (line 22 keeps a cache that already exists).
OLD_MODEL == "text-embedding-ada-002"

\* THRESH = 0.82 as the fraction THRESH_NUM / THRESH_DEN
THRESH_NUM == 82
THRESH_DEN == 100

KB_CACHE_MS == 5 * 60 * 1000
VEC_CACHE_MS == 30 * 60 * 1000

\* The k of topK(qVec, vecs, 3)
TOP_K == 3

----------------------------------------------------------------------------
(* Strings *)

NULL == <<>>
Some(v) == <<v>>

IsSpace(c) == c \in {" ", "\n", "\t"}

RECURSIVE TrimStart(_)
TrimStart(s) ==
    IF s = <<>> THEN <<>>
    ELSE IF IsSpace(Head(s)) THEN TrimStart(Tail(s)) ELSE s

RECURSIVE TrimEnd(_)
TrimEnd(s) ==
    IF s = <<>> THEN <<>>
    ELSE IF IsSpace(s[Len(s)]) THEN TrimEnd(SubSeq(s, 1, Len(s) - 1)) ELSE s

\* String.prototype.trim
Trim(s) == TrimEnd(TrimStart(s))

\* String.prototype.split(sep) for a one-character separator: the pieces
\* between separators, empty pieces included.
RECURSIVE SplitAcc(_, _, _)
SplitAcc(s, sep, cur) ==
    IF s = <<>> THEN <<cur>>
    ELSE IF Head(s) = sep THEN <<cur>> \o SplitAcc(Tail(s), sep, <<>>)
    ELSE SplitAcc(Tail(s), sep, Append(cur, Head(s)))

Split(s, sep) == SplitAcc(s, sep, <<>>)

\* Array.prototype.join(sep)
RECURSIVE Join(_, _)
Join(parts, sep) ==
    IF parts = <<>> THEN <<>>
    ELSE IF Len(parts) = 1 THEN parts[1]
    ELSE parts[1] \o sep \o Join(Tail(parts), sep)

\* .filter(Boolean) on an array of strings: the empty string is falsy
RECURSIVE FilterNonEmpty(_)
FilterNonEmpty(parts) ==
    IF parts = <<>> THEN <<>>
    ELSE IF Head(parts) = <<>> THEN FilterNonEmpty(Tail(parts))
    ELSE <<Head(parts)>> \o FilterNonEmpty(Tail(parts))

\* .map(s => s.trim())
MapTrim(parts) == [i \in 1..Len(parts) |-> Trim(parts[i])]

\* (a || b) on two possibly-undefined strings: a unless it is undefined or ""
OrElse(a, b) == IF a # NULL /\ a[1] # <<>> THEN a ELSE b

\* (x || "").toString().trim() on a possibly-undefined string
TextOf(x) == IF x = NULL THEN <<>> ELSE Trim(x[1])

----------------------------------------------------------------------------
(* The knowledge base: loadKB's mapping of the CMS items, lines 78-93 *)

\* A mapping that keeps the items whose answer is empty
EntryOf_KeepsBlank(item, i) ==
    LET id       == IF item.id # NULL THEN item.id[1] ELSE ToString(i)
        question == TextOf(item.question)
        kwRaw    == IF item.keywords = NULL THEN <<>> ELSE item.keywords[1]
        kw       == FilterNonEmpty(MapTrim(Split(kwRaw, ",")))
    IN  Some([id |-> id,
              question |-> question,
              question_patterns |-> FilterNonEmpty(<<question>> \o kw),
              answer |-> TextOf(item.answer)])

\* A raw CMS item: [id, question, answer, keywords], each possibly undefined.
\* One entry of the KB, or NULL when the item has no answer (line 91).
EntryOf(item, i) ==
    LET id       == IF item.id # NULL THEN item.id[1] ELSE ToString(i)
        question == TextOf(item.question)
        answer   == TextOf(item.answer)
        kwRaw    == IF item.keywords = NULL THEN <<>> ELSE item.keywords[1]
        kw       == FilterNonEmpty(MapTrim(Split(kwRaw, ",")))
    IN  IF answer = <<>> THEN NULL
        ELSE Some([id |-> id,
                   question |-> question,
                   question_patterns |-> FilterNonEmpty(<<question>> \o kw),
                   answer |-> answer])

\* (data.items || []).map((item, i) => ...).filter(Boolean); i counts from 0
RECURSIVE EntriesFrom(_, _)
EntriesFrom(items, i) ==
    IF items = <<>> THEN <<>>
    ELSE EntryOf(Head(items), i) \o EntriesFrom(Tail(items), i + 1)

Entries(items) == EntriesFrom(items, 0)

----------------------------------------------------------------------------
(* Numbers: the IEEE 754 binary64 arithmetic of a JavaScript Number, as   *)
(* _cosine.js uses it (Math.sqrt, *, / are correctly rounded). The         *)
(* significands need more than the 32 bits of a TLC integer: a natural     *)
(* number of any size is the sequence of its digits in base LIMB, least    *)
(* significant first, without leading zeros (0 is <<>>).                   *)

LIMB_BITS == 15
LIMB == 32768

\* The bits of a binary64 significand
MANT_BITS == 53

RECURSIVE BigNorm(_)
BigNorm(x) ==
    IF x = <<>> THEN <<>>
    ELSE IF x[Len(x)] = 0 THEN BigNorm(SubSeq(x, 1, Len(x) - 1)) ELSE x

RECURSIVE BigOf(_)
BigOf(n) == IF n = 0 THEN <<>> ELSE <<n % LIMB>> \o BigOf(n \div LIMB)

Digit(x, i) == IF i <= Len(x) THEN x[i] ELSE 0

\* -1, 0, 1 as x < y, x = y, x > y; i runs from the top digit down
RECURSIVE BigCmpFrom(_, _, _)
BigCmpFrom(x, y, i) ==
    IF i = 0 THEN 0
    ELSE IF Digit(x, i) < Digit(y, i) THEN -1
    ELSE IF Digit(x, i) > Digit(y, i) THEN 1
    ELSE BigCmpFrom(x, y, i - 1)

BigCmp(x, y) == BigCmpFrom(x, y, IF Len(x) > Len(y) THEN Len(x) ELSE Len(y))

RECURSIVE BigAddFrom(_, _, _, _)
BigAddFrom(x, y, i, carry) ==
    IF i > Len(x) /\ i > Len(y)
    THEN (IF carry = 0 THEN <<>> ELSE <<carry>>)
    ELSE LET d == Digit(x, i) + Digit(y, i) + carry
         IN  <<d % LIMB>> \o BigAddFrom(x, y, i + 1, d \div LIMB)

BigAdd(x, y) == BigAddFrom(x, y, 1, 0)

\* x * c + carry for a digit c, from digit i on
RECURSIVE BigMulDigitFrom(_, _, _, _)
BigMulDigitFrom(x, c, i, carry) ==
    IF i > Len(x) THEN (IF carry = 0 THEN <<>> ELSE <<carry>>)
    ELSE LET d == x[i] * c + carry
         IN  <<d % LIMB>> \o BigMulDigitFrom(x, c, i + 1, d \div LIMB)

BigMulDigit(x, c) == IF c = 0 THEN <<>> ELSE BigMulDigitFrom(x, c, 1, 0)

RECURSIVE BigMul(_, _)
BigMul(x, y) ==
    IF y = <<>> \/ x = <<>> THEN <<>>
    ELSE BigAdd(BigMulDigit(x, y[1]),
                LET rest == BigMul(x, Tail(y))
                IN  IF rest = <<>> THEN <<>> ELSE <<0>> \o rest)

RECURSIVE Pow2(_)
Pow2(n) == IF n = 0 THEN 1 ELSE 2 * Pow2(n - 1)

\* x * 2^n
BigShl(x, n) ==
    IF x = <<>> THEN <<>>
    ELSE [i \in 1..(n \div LIMB_BITS) |-> 0] \o BigMulDigit(x, Pow2(n % LIMB_BITS))

\* floor(x / c) for a digit c, from digit i down with the remainder so far
RECURSIVE BigDivDigitFrom(_, _, _, _)
BigDivDigitFrom(x, c, i, rem) ==
    IF i = 0 THEN <<>>
    ELSE LET d == rem * LIMB + x[i]
         IN  BigDivDigitFrom(x, c, i - 1, d % c) \o <<d \div c>>

\* floor(x / 2^n)
BigShr(x, n) ==
    LET y == SubSeq(x, (n \div LIMB_BITS) + 1, Len(x))
    IN  BigNorm(BigDivDigitFrom(y, Pow2(n % LIMB_BITS), Len(y), 0))

RECURSIVE BitsOfInt(_)
BitsOfInt(n) == IF n = 0 THEN 0 ELSE 1 + BitsOfInt(n \div 2)

\* The number of bits of x
BigBits(x) ==
    IF x = <<>> THEN 0 ELSE LIMB_BITS * (Len(x) - 1) + BitsOfInt(x[Len(x)])

BigOdd(x) == x # <<>> /\ x[1] % 2 = 1

\* floor(sqrt(n)): r grows by the bits i..0 while r * r stays within n
RECURSIVE BigSqrtFrom(_, _, _)
BigSqrtFrom(n, r, i) ==
    IF i < 0 THEN r
    ELSE LET t == BigAdd(r, BigShl(<<1>>, i))
         IN  IF BigCmp(BigMul(t, t), n) <= 0
             THEN BigSqrtFrom(n, t, i - 1)
             ELSE BigSqrtFrom(n, r, i - 1)

BigSqrt(n) == BigSqrtFrom(n, <<>>, BigBits(n) \div 2)

\* floor(n / d), d > 0: q grows by the bits i..0 while q * d stays within n
RECURSIVE BigDivFrom(_, _, _, _)
BigDivFrom(n, d, q, i) ==
    IF i < 0 THEN q
    ELSE LET t == BigAdd(q, BigShl(<<1>>, i))
         IN  IF BigCmp(BigMul(t, d), n) <= 0
             THEN BigDivFrom(n, d, t, i - 1)
             ELSE BigDivFrom(n, d, q, i - 1)

BigDiv(n, d) ==
    BigDivFrom(n, d, <<>>, IF BigBits(n) < BigBits(d) THEN 0 ELSE BigBits(n) - BigBits(d))

\* A Number: NaN, or sign * m * 2^e with m of exactly MANT_BITS bits (or
\* zero). The model's numbers stay far from the ends of the exponent range.
NaN == [nan |-> TRUE, s |-> 0, m |-> <<>>, e |-> 0]
Zero == [nan |-> FALSE, s |-> 0, m |-> <<>>, e |-> 0]

\* The nearest Number to s * n * 2^e (n > 0), ties to the even significand;
\* sticky: the exact value is a little over n * 2^e
Round(s, n, e, sticky) ==
    LET bits == BigBits(n)
        cut  == bits - MANT_BITS
    IN  IF cut <= 0
        THEN [nan |-> FALSE, s |-> s, m |-> BigShl(n, -cut), e |-> e + cut]
        ELSE LET kept == BigShr(n, cut)
                 low  == BigCmp(BigShl(n, 1),
                                BigAdd(BigShl(kept, cut + 1), BigShl(<<1>>, cut)))
                 \* low: the cut-off part against one half of the last place
                 up   == low > 0 \/ (low = 0 /\ (sticky \/ BigOdd(kept)))
                 m    == IF up THEN BigAdd(kept, <<1>>) ELSE kept
             IN  IF BigBits(m) > MANT_BITS
                 THEN [nan |-> FALSE, s |-> s, m |-> BigShr(m, 1), e |-> e + cut + 1]
                 ELSE [nan |-> FALSE, s |-> s, m |-> m, e |-> e + cut]

\* The Number of an integer
NumOf(n) ==
    IF n = 0 THEN Zero
    ELSE Round(IF n < 0 THEN -1 ELSE 1, BigOf(IF n < 0 THEN -n ELSE n), 0, FALSE)

\* Math.sqrt(x), x >= 0 or NaN: the correctly rounded root
NumSqrt(x) ==
    IF x.nan THEN NaN
    ELSE IF x.s = 0 THEN Zero
    ELSE LET even == x.e % 2 = 0
             \* x = n * 2^(2h) with n of 108 or 109 bits
             n    == BigShl(x.m, IF even THEN 56 ELSE 57)
             h    == IF even THEN (x.e - 56) \div 2 ELSE (x.e - 57) \div 2
             r    == BigSqrt(n)
         IN  Round(1, r, h, BigMul(r, r) # n)

\* x * y
NumMul(x, y) ==
    IF x.nan \/ y.nan THEN NaN
    ELSE IF x.s = 0 \/ y.s = 0 THEN Zero
    ELSE Round(x.s * y.s, BigMul(x.m, y.m), x.e + y.e, FALSE)

\* x / y, y not zero
NumDiv(x, y) ==
    IF x.nan \/ y.nan THEN NaN
    ELSE IF x.s = 0 THEN Zero
    ELSE LET n == BigShl(x.m, 56)
             q == BigDiv(n, y.m)
         IN  Round(x.s * y.s, q, x.e - 56 - y.e, BigMul(q, y.m) # n)

\* -1, 0, 1 as x < y, x = y, x > y, for two Numbers that are not NaN
NumCmp(x, y) ==
    IF x.s # y.s THEN (IF x.s < y.s THEN -1 ELSE 1)
    ELSE IF x.s = 0 THEN 0
    ELSE IF x.e # y.e THEN (IF x.e < y.e THEN -x.s ELSE x.s)
    ELSE x.s * BigCmp(x.m, y.m)

\* x < y: false when either is NaN
NumLess(x, y) == ~x.nan /\ ~y.nan /\ NumCmp(x, y) < 0

----------------------------------------------------------------------------
(* Embeddings and scores *)

\* The text ensureVectors embeds for an entry, line 111
EmbedInput(e) ==
    Join(e.question_patterns, <<" ", ";", " ">>) \o <<"\n", "\n">> \o e.answer

RECURSIVE Count(_, _)
Count(s, c) ==
    IF s = <<>> THEN 0
    ELSE (IF Head(s) = c THEN 1 ELSE 0) + Count(Tail(s), c)

\* The embedding service (external): the vector it returns for a text.
Embedding(text) == <<Count(text, "a"), Count(text, "b")>>

RECURSIVE SumTo(_, _, _)
SumTo(a, b, i) == IF i = 0 THEN 0 ELSE a[i] * b[i] + SumTo(a, b, i - 1)

\* if (x) on a Number: 0 and NaN are falsy
Truthy(x) == ~x.nan /\ x.s # 0

\* A cosine that divides without testing the denominator; a division by 0
\* or by NaN gives NaN here (0 / 0) or a Number that is not a score
cosine_Unguarded(a, b) ==
    LET n     == Len(a)
        short == Len(b) < n
        denom == NumMul(NumSqrt(NumOf(SumTo(a, a, n))),
                        IF short THEN NaN ELSE NumSqrt(NumOf(SumTo(b, b, n))))
    IN  IF Truthy(denom)
        THEN NumDiv(IF short THEN NaN ELSE NumOf(SumTo(a, b, n)), denom)
        ELSE NaN

\* cosine(a, b), _cosine.js lines 1-10. The loop runs over a's indices; an
\* index b does not have reads undefined, which makes dot and bMag NaN. The
\* elements are integers small enough for the loop's sums to be exact.
cosine(a, b) ==
    LET n     == Len(a)
        short == Len(b) < n
        dot   == IF short THEN NaN ELSE NumOf(SumTo(a, b, n))
        aMag  == NumOf(SumTo(a, a, n))
        bMag  == IF short THEN NaN ELSE NumOf(SumTo(b, b, n))
        denom == NumMul(NumSqrt(aMag), NumSqrt(bMag))
    IN  IF Truthy(denom) THEN NumDiv(dot, denom) ELSE Zero

\* THRESH = parseFloat("0.82"), line 13: the Number nearest to 82 / 100
THRESH == NumDiv(NumOf(THRESH_NUM), NumOf(THRESH_DEN))

\* b.score - a.score > 0, the comparator of line 39: s sorts after t
ScoreLess(s, t) == NumLess(s, t)

\* score < THRESH, line 159
BelowThresh(s) == NumLess(s, THRESH)

\* Array.prototype.sort((a, b) => b.score - a.score): stable, descending.
\* x goes after every element whose score is not less than its own.
\* An insertion that puts x before the elements whose score equals its own
RECURSIVE InsertDesc_TiesFirst(_, _)
InsertDesc_TiesFirst(sorted, x) ==
    IF sorted = <<>> THEN <<x>>
    ELSE IF ~ScoreLess(x.score, Head(sorted).score) THEN <<x>> \o sorted
    ELSE <<Head(sorted)>> \o InsertDesc_TiesFirst(Tail(sorted), x)

RECURSIVE InsertDesc(_, _)
InsertDesc(sorted, x) ==
    IF sorted = <<>> THEN <<x>>
    ELSE IF ScoreLess(Head(sorted).score, x.score) THEN <<x>> \o sorted
    ELSE <<Head(sorted)>> \o InsertDesc(Tail(sorted), x)

RECURSIVE SortDesc(_)
SortDesc(cands) ==
    IF cands = <<>> THEN <<>>
    ELSE InsertDesc(SortDesc(SubSeq(cands, 1, Len(cands) - 1)), cands[Len(cands)])

\* .slice(0, k)
Slice(s, k) == SubSeq(s, 1, IF Len(s) < k THEN Len(s) ELSE k)

\* new Map(kb.entries.map(e => [e.id, e])).get(id): the last entry with the
\* id, or NULL
ById(entries, id) ==
    LET hits == {i \in 1..Len(entries) : entries[i].id = id}
    IN  IF hits = {} THEN NULL
        ELSE Some(entries[CHOOSE i \in hits : \A j \in hits : j <= i])

\* A selection that keeps a place, with an empty answer, for a candidate
\* whose id the KB does not have
RECURSIVE SelectedAnswers_KeepsHoles(_, _)
SelectedAnswers_KeepsHoles(top, entries) ==
    IF top = <<>> THEN <<>>
    ELSE LET e == ById(entries, Head(top).id)
         IN  (IF e = NULL THEN <<<<>>>> ELSE <<e[1].answer>>)
             \o SelectedAnswers_KeepsHoles(Tail(top), entries)

\* top.map(t => byId.get(t.id)).filter(Boolean).map(e => e.answer), line 163
RECURSIVE SelectedAnswers(_, _)
SelectedAnswers(top, entries) ==
    IF top = <<>> THEN <<>>
    ELSE LET e == ById(entries, Head(top).id)
         IN  (IF e = NULL THEN <<>> ELSE <<e[1].answer>>)
             \o SelectedAnswers(Tail(top), entries)

\* A composition that answers with the best candidate alone
ComposeAnswer_BestOnly(top, entries) ==
    Join(SelectedAnswers(SubSeq(top, 1, 1), entries), <<" ">>)

\* A composition that answers with every entry of the KB, selected or not
ComposeAnswer_WholeKB(top, entries) ==
    Join([i \in 1..Len(entries) |-> entries[i].answer], <<" ">>)

\* The composed answer, line 163
ComposeAnswer(top, entries) == Join(SelectedAnswers(top, entries), <<" ">>)

----------------------------------------------------------------------------
(* The environment: the CMS's content, the requests, the clock *)

ItemA == [id |-> Some("A"), question |-> Some(<<"a">>),
          answer |-> Some(<<"X">>), keywords |-> NULL]
\* ItemA after an edit in the CMS: same id, new question and answer
ItemA2 == [id |-> Some("A"), question |-> Some(<<"b">>),
           answer |-> Some(<<"V">>), keywords |-> NULL]
ItemB == [id |-> Some("B"), question |-> Some(<<"b">>),
          answer |-> Some(<<" ", "Y", "\n">>), keywords |-> Some(<<>>)]
ItemC == [id |-> Some("C"), question |-> Some(<<" ", "a">>),
          answer |-> Some(<<"Z">>), keywords |-> Some(<<"b", ",", " ">>)]
\* An item without an id: its id is its index in the response
ItemD == [id |-> NULL, question |-> Some(<<"a">>),
          answer |-> Some(<<"W">>), keywords |-> NULL]
\* An item whose answer is blank
ItemE == [id |-> Some("E"), question |-> Some(<<"a">>),
          answer |-> Some(<<" ">>), keywords |-> NULL]

\* What the CMS may hold when it is fetched (data.items)
CmsContents ==
    { <<>>,
      <<ItemE>>,
      <<ItemA>>,
      <<ItemA, ItemB>>,
      <<ItemA2, ItemC>>,
      <<ItemB, ItemC, ItemE, ItemA, ItemD>> }

\* The messages of the errors the collaborators and the parsers throw
ErrorMessages == {<<>>, <<"connect ECONNREFUSED 10.0.0.7:443">>}

\* The status and the body of a response of the CMS that is not OK
BadStatuses == {"401", "500"}
BadBodies == {<<>>, <<"{\"token\":\"wf_secret\"}">>}

\* The ways the fetch of lines 60-71 fails: fetch rejects ("net"), !resp.ok
\* ("status"), resp.json() rejects ("parse")
FetchFailures ==
    [kind : {"net", "parse"}, message : ErrorMessages, status : {""}, body : {<<>>}]
    \cup [kind : {"status"}, message : {<<>>}, status : BadStatuses, body : BadBodies]

\* A field of a request (text, question, q, the transcript): undefined or a string
Fields == { NULL, Some(<<>>), Some(<<" ">>), Some(<<" ", "a">>), Some(<<"a", "a", "b">>) }

\* A request: its method, whether its content type is multipart/form-data,
\* and its query-string parameters text and q
Requests ==
    [method : {"OPTIONS", "PUT"}, multipart : {FALSE}, text : {NULL}, q : {NULL}]
    \cup [method : {"POST"}, multipart : BOOLEAN, text : {NULL}, q : {NULL}]
    \cup [method : {"GET"}, multipart : {FALSE}, text : Fields, q : Fields]

\* The body of a JSON POST: not JSON, or an object with text and question
Bodies == {[json |-> FALSE, text |-> NULL, question |-> NULL]}
          \cup [json : {TRUE}, text : Fields, question : Fields]

\* Date.now() when the process starts: later than both TTLs after the epoch
StartTime == VEC_CACHE_MS + KB_CACHE_MS

\* The instants at which the clock is read, as offsets from StartTime: they
\* step over the two TTLs' boundaries (KB_CACHE_MS - 1, KB_CACHE_MS,
\* VEC_CACHE_MS, VEC_CACHE_MS + 1, and the same again from there)
TickStep(k) ==
    CASE k % 4 = 1 -> KB_CACHE_MS - 1
      [] k % 4 = 2 -> 1
      [] k % 4 = 3 -> VEC_CACHE_MS - KB_CACHE_MS
      [] OTHER     -> 1

RECURSIVE Instant(_)
Instant(k) == IF k = 0 THEN StartTime ELSE Instant(k - 1) + TickStep(k)

----------------------------------------------------------------------------
(* Responses *)

MSG_CLARIFY == <<"I didn't catch that. Could you repeat your question?">>
\* part_001 line 150
MSG_CLARIFY_001 == <<"I didn't catch that. Could you rephrase?">>
MSG_EMPTY == <<"The hotel guide is empty. Please check back soon.">>
MSG_NOMATCH == <<"I don't have that in the hotel guide. Would you like the front desk contact details?">>
MSG_ERROR == <<"Server error. Please try again in a moment.">>
MSG_NOAUDIO == <<"Missing audio file">>
MSG_METHOD == <<"Method not allowed">>

\* A response: its status and its JSON body, which is { key: text } or, for
\* part_001's debug payload, { error: true, where, detail, status, body }
\* (dbg; a key whose value is undefined is not sent)
NoResponse == [status |-> 0, key |-> "", text |-> <<>>, dbg |-> NULL]

\* What is thrown at the handler: an Error with its message and the fields
\* part_001 attaches to it (code, status, body), each possibly absent
Thrown(code, message, status, body) ==
    [code |-> code, message |-> message, status |-> status, body |-> body]

----------------------------------------------------------------------------
(* State *)

EmptyVecCache == [at |-> 0, model |-> "", count |-> 0, vectors |-> <<>>]

\* A generation computed by an earlier evaluation of the module, under
\* another EMBEDDING_MODEL, that line 22 finds in globalThis and keeps
LeftoverVecCache ==
    [at |-> StartTime - 1, model |-> OLD_MODEL, count |-> 1,
     vectors |-> <<[id |-> "A", embedding |-> <<1, 0>>]>>]

NoCalls == [fetchFn |-> 0, http |-> 0, embedKB |-> 0, embedQ |-> 0, stt |-> 0]

\* The handler's locals, and what the request saw when it called loadKB and
\* ensureVectors (preKb, preVec), what the CMS answered (fetched), where it
\* failed (failed), what was thrown there (err), how it ended (path) and how
\* many responses it has sent (sent)
NoLocals ==
    [queryText |-> <<>>, kb |-> NULL, kbNow |-> 0, vecNow |-> 0,
     vectors |-> <<>>, vecs |-> NULL, top |-> <<>>,
     preKb |-> NULL, preVec |-> NULL, fetched |-> NULL,
     failed |-> "", err |-> NULL, path |-> "", sent |-> 0]

\* No ensureVectors call has ended yet, or the last one returned; otherwise
\* the last one threw, and count is the entry count of the KB it was given
NoEnsure == [failed |-> FALSE, count |-> 0]

Init ==
    /\ now = StartTime
    /\ ticks = 0
    /\ hasEnv \in BOOLEAN
    /\ kbCache = [at |-> 0, kb |-> NULL]
    /\ vecCache \in {EmptyVecCache, LeftoverVecCache}
    /\ pc = [p \in Procs |-> "idle"]
    /\ loc = [p \in Procs |-> NoLocals]
    /\ res = [p \in Procs |-> NoResponse]
    /\ calls = [p \in Procs |-> NoCalls]
    /\ lastEnsure = NoEnsure
    /\ args = <<>>
    /\ result = NULL
    /\ build = "ask.js"
    /\ DEBUG = FALSE

----------------------------------------------------------------------------
(* Scoring *)

\* The vectors the embedding service returns for the query texts and for
\* the entries of this environment
QueryVectors == {Embedding(TextOf(f)) : f \in Fields}

EntryVectors ==
    {LeftoverVecCache.vectors[i].embedding : i \in 1..Len(LeftoverVecCache.vectors)}
    \cup UNION {{Embedding(EmbedInput(Entries(items)[i])) : i \in 1..Len(Entries(items))}
                : items \in CmsContents}

\* cosine over these vectors, computed once (cosine is a pure function): the
\* rows <<arguments, result>>, and the result for a pair of arguments
ScoreRows ==
    {<<pair, cosine(pair[1], pair[2])>> : pair \in QueryVectors \X EntryVectors}

Scores ==
    [pair \in QueryVectors \X EntryVectors |->
        (CHOOSE row \in ScoreRows : row[1] = pair)[2]]

\* topK(qVec, vecs, k), lines 36-41
topK(qVec, vecs, k) ==
    Slice(SortDesc([i \in 1..Len(vecs.vectors) |->
                      [id |-> vecs.vectors[i].id,
                       score |-> Scores[<<qVec, vecs.vectors[i].embedding>>]]]), k)

----------------------------------------------------------------------------
(* The caches' rules *)

\* A loadKB that still serves the cache at the age KB_CACHE_MS
KbFresh_AtTtl(c, t) == c.kb # NULL /\ t - c.at <= KB_CACHE_MS

\* loadKB's test of line 52: the cached KB is served
KbFresh(c, t) == c.kb # NULL /\ t - c.at < KB_CACHE_MS

\* loadKB's replacement of the cache, lines 78-96; t is loadKB's `now`
NewKbCache(t, items) == [at |-> t, kb |-> Some([entries |-> Entries(items)])]

\* An ensureVectors that recomputes already at the age VEC_CACHE_MS
VecStale_AtTtl(vc, kb, t) ==
    \/ Len(vc.vectors) = 0
    \/ vc.model # EMBEDDING_MODEL
    \/ vc.count # Len(kb.entries)
    \/ t - vc.at >= VEC_CACHE_MS

\* An ensureVectors that ages the vectors by the KB's TTL
VecStale_KbTtl(vc, kb, t) ==
    \/ Len(vc.vectors) = 0
    \/ vc.model # EMBEDDING_MODEL
    \/ vc.count # Len(kb.entries)
    \/ t - vc.at > KB_CACHE_MS

\* An ensureVectors that does not compare the entry counts
VecStale_NoCount(vc, kb, t) ==
    \/ Len(vc.vectors) = 0
    \/ vc.model # EMBEDDING_MODEL
    \/ t - vc.at > VEC_CACHE_MS

\* ensureVectors' test of lines 102-105
VecStale(vc, kb, t) ==
    \/ Len(vc.vectors) = 0
    \/ vc.model # EMBEDDING_MODEL
    \/ vc.count # Len(kb.entries)
    \/ t - vc.at > VEC_CACHE_MS

\* The vector pushed for an entry, lines 111-113
VectorOf(e) == [id |-> e.id, embedding |-> Embedding(EmbedInput(e))]

\* A replacement that keeps the count the cache had
NewVecCache_KeepsCount(t, kb, vectors) ==
    [at |-> t, model |-> EMBEDDING_MODEL, count |-> vecCache.count,
     vectors |-> vectors]

\* ensureVectors' replacement of the cache, line 115; t is ensureVectors' `now`
NewVecCache(t, kb, vectors) ==
    [at |-> t, model |-> EMBEDDING_MODEL, count |-> Len(kb.entries),
     vectors |-> vectors]

\* A gate that only asks for a candidate
GatePasses_NoThreshold(top) == top # <<>>

\* The confidence gate of line 159 lets the candidates through
GatePasses(top) == top # <<>> /\ ~BelowThresh(top[1].score)

\* A handler that does not test the query text
IsEmptyQuery_Never(q) == FALSE

\* !queryText, line 145
IsEmptyQuery(q) == q = <<>>

\* A handler that does not test the KB
IsEmptyKB_Never(kb) == FALSE

\* !kb.entries?.length, line 151
IsEmptyKB(kb) == Len(kb.entries) = 0

\* The query text of a GET request, line 140; part_002 line 160 reads
\* req.query.text alone
QueryOfGet(r) ==
    IF build = "part_002" THEN TextOf(r.text) ELSE TextOf(OrElse(r.text, r.q))

\* The query text of a JSON body, line 137; part_002 line 158 reads
\* body.text alone
QueryOfBody(b) ==
    IF build = "part_002" THEN TextOf(b.text) ELSE TextOf(OrElse(b.text, b.question))

\* The query text of a transcription, line 46: (r.text || "").trim()
QueryOfTranscript(t) == TextOf(t)

----------------------------------------------------------------------------
(* The handler, lines 120-169, in the pieces that run between two awaits *)

\* res.status(status).json(body) and return
Respond(p, l, c, status, body, path) ==
    /\ pc' = [pc EXCEPT ![p] = "done"]
    /\ loc' = [loc EXCEPT ![p] = [l EXCEPT !.path = path, !.sent = @ + 1]]
    /\ calls' = [calls EXCEPT ![p] = c]
    /\ res' = [res EXCEPT ![p] = [status |-> status, key |-> body.key,
                                   text |-> body.text, dbg |-> body.dbg]]
    /\ UNCHANGED <<args, result, build, DEBUG>>

\* res.status(status).json({ key: text }) and return
Finish(p, l, c, status, key, text, path) ==
    Respond(p, l, c, status, [key |-> key, text |-> text, dbg |-> NULL], path)

\* (a || b) on a possibly-absent code and a message
CodeOrMessage(e) ==
    IF e.code # NULL /\ e.code[1] # "" THEN <<e.code[1]>> ELSE e.message

NoExtra == [status |-> NULL, body |-> NULL]

\* A dbgPayload that always gives the stage and the detail
dbgPayload_Always(where, detail, extra) ==
    [key |-> "error", text |-> <<>>,
     dbg |-> Some([where |-> where, detail |-> detail,
                   status |-> extra.status, body |-> extra.body])]

\* dbgPayload(where, detail, extra), part_001 lines 30-33;
\* String(detail || "") of a string is the string
dbgPayload(where, detail, extra) ==
    IF ~DEBUG THEN [key |-> "text", text |-> MSG_ERROR, dbg |-> NULL]
    ELSE [key |-> "error", text |-> <<>>,
          dbg |-> Some([where |-> where, detail |-> detail,
                        status |-> extra.status, body |-> extra.body])]

\* The body of the 500 response to what was thrown (e) at a stage: the
\* catch of ask.js lines 165-168; in part_001 the catch around the stage
\* (lines 156, 164, 169) or the outer one (line 182)
ErrorBody(stage, e) ==
    IF build = "ask.js" THEN [key |-> "text", text |-> MSG_ERROR, dbg |-> NULL]
    ELSE CASE stage = "loadKB" ->
                dbgPayload("loadKB", CodeOrMessage(e),
                           [status |-> e.status, body |-> e.body])
           [] stage = "ensureVectors" ->
                dbgPayload("ensureVectors", CodeOrMessage(e), NoExtra)
           [] stage = "embedQuery" ->
                dbgPayload("embed_query", CodeOrMessage(e), NoExtra)
           [] OTHER -> dbgPayload("fatal", e.message, NoExtra)

\* A catch that logs what was thrown and sends nothing
Throw_Swallows(p, l, c, stage, e) ==
    /\ pc' = [pc EXCEPT ![p] = "done"]
    /\ loc' = [loc EXCEPT ![p] = [l EXCEPT !.failed = stage, !.err = Some(e),
                                            !.path = "error"]]
    /\ calls' = [calls EXCEPT ![p] = c]
    /\ res' = [res EXCEPT ![p] = NoResponse]
    /\ UNCHANGED <<args, result, build, DEBUG>>

\* Something is thrown inside the try block and caught: the 500 response
Throw(p, l, c, stage, e) ==
    Respond(p, [l EXCEPT !.failed = stage, !.err = Some(e)], c, 500,
            ErrorBody(stage, e), "error")

\* What embed and transcribeAudio throw: in part_001 with a code (lines
\* 84-87, 118-121)
Coded(code, message) ==
    Thrown(IF build = "part_001" THEN Some(code) ELSE NULL, message, NULL, NULL)

\* What loadKB throws without credentials (lines 55-57, part_001 40-42)
EnvError ==
    IF build = "part_001"
    THEN Thrown(Some("ENV"), <<"Missing Webflow env vars">>, NULL, NULL)
    ELSE Thrown(NULL, <<"Missing WEBFLOW_* env vars.">>, NULL, NULL)

\* What loadKB throws when the fetch fails (lines 60-71, part_001 45-62)
FetchError(f) ==
    IF build = "part_001"
    THEN CASE f.kind = "net" -> Thrown(Some("NET"), f.message, NULL, NULL)
           [] f.kind = "parse" -> Thrown(Some("PARSE"), f.message, NULL, NULL)
           [] OTHER -> Thrown(Some("WEBFLOW"), <<"Webflow ", f.status>>,
                              Some(f.status), Some(f.body))
    ELSE CASE f.kind = "status" ->
                Thrown(NULL, <<"Webflow fetch failed: ", f.status, " ">> \o f.body,
                       NULL, NULL)
           [] OTHER -> Thrown(NULL, f.message, NULL, NULL)

\* The handler suspends at an await of I/O; it has not responded yet
Await(p, l, c, where) ==
    /\ pc' = [pc EXCEPT ![p] = where]
    /\ loc' = [loc EXCEPT ![p] = l]
    /\ calls' = [calls EXCEPT ![p] = c]
    /\ res' = [res EXCEPT ![p] = NoResponse]
    /\ UNCHANGED <<args, result, build, DEBUG>>

\* Lines 157: the handler calls embed(queryText) and awaits it
CallEmbedQuery(p, l, c) ==
    Await(p, l, [c EXCEPT !.embedQ = @ + 1], "embedQuery")

\* An ensureVectors that issues the embedding calls of all the entries at
\* once (Promise.all) before it awaits the first
AfterLoadKB_EmbedsTogether(p, l, c) ==
    LET kb == l.kb[1]
        l1 == [l EXCEPT !.vecNow = now, !.preVec = Some(vecCache), !.vectors = <<>>]
    IN  IF IsEmptyKB(kb)
        THEN /\ Finish(p, l, c, 200, "text", MSG_EMPTY, "empty")
             /\ UNCHANGED lastEnsure
        ELSE IF ~VecStale(vecCache, kb, now)
        THEN /\ CallEmbedQuery(p, [l1 EXCEPT !.vecs = Some(vecCache)], c)
             /\ lastEnsure' = NoEnsure
        ELSE /\ Await(p, l1, [c EXCEPT !.embedKB = @ + Len(kb.entries)], "embedEntry")
             /\ UNCHANGED lastEnsure

\* Lines 151-154, from the return of loadKB to the first await of
\* ensureVectors (lines 100-112) or, on a cache hit, of embed(queryText).
\* l.kb is the KB loadKB returned.
AfterLoadKB(p, l, c) ==
    LET kb == l.kb[1]
        l1 == [l EXCEPT !.vecNow = now, !.preVec = Some(vecCache), !.vectors = <<>>]
    IN  IF IsEmptyKB(kb)
        THEN /\ Finish(p, l, c, 200, "text", MSG_EMPTY, "empty")
             /\ UNCHANGED lastEnsure
        ELSE IF ~VecStale(vecCache, kb, now)
        THEN /\ CallEmbedQuery(p, [l1 EXCEPT !.vecs = Some(vecCache)], c)
             /\ lastEnsure' = NoEnsure
        ELSE /\ Await(p, l1, [c EXCEPT !.embedKB = @ + 1], "embedEntry")
             /\ UNCHANGED lastEnsure

\* Lines 145-150 and loadKB to its first await (lines 50-60). l.queryText is
\* the query text. Leaves both caches as they are.
AfterQuery(p, l, c) ==
    LET l1 == [l EXCEPT !.kbNow = now, !.preKb = Some(kbCache)]
    IN  /\ UNCHANGED <<kbCache, vecCache>>
        /\ IF IsEmptyQuery(l.queryText)
           THEN /\ Finish(p, l, c, 200, "text",
                          IF build = "part_001" THEN MSG_CLARIFY_001 ELSE MSG_CLARIFY,
                          "clarify")
                /\ UNCHANGED lastEnsure
           ELSE IF KbFresh(kbCache, now)
           THEN AfterLoadKB(p, [l1 EXCEPT !.kb = kbCache.kb], c)
           ELSE IF ~hasEnv
           THEN /\ Throw(p, l1, [c EXCEPT !.fetchFn = @ + 1], "loadKB", EnvError)
                /\ UNCHANGED lastEnsure
           ELSE /\ Await(p, l1, [c EXCEPT !.fetchFn = @ + 1, !.http = @ + 1], "fetch")
                /\ UNCHANGED lastEnsure

\* A request arrives: lines 121-143 to the first await
StartRequest(p, r) ==
    /\ pc[p] \in {"idle", "done"}
    /\ UNCHANGED <<now, ticks, hasEnv>>
    /\ LET l == NoLocals
           c == NoCalls
       IN  IF r.method = "OPTIONS"
           THEN /\ Finish(p, l, c, 204, "", <<>>, "options")
                /\ UNCHANGED <<kbCache, vecCache, lastEnsure>>
           ELSE IF r.method = "POST"
           THEN /\ UNCHANGED <<kbCache, vecCache, lastEnsure>>
                /\ IF r.multipart
                   THEN Await(p, l, c, "parseForm")
                   ELSE Await(p, l, c, "readBody")
           ELSE IF r.method = "GET"
           THEN AfterQuery(p, [l EXCEPT !.queryText = QueryOfGet(r)], c)
           ELSE /\ Finish(p, l, c, 405, "error", MSG_METHOD, "method")
                /\ UNCHANGED <<kbCache, vecCache, lastEnsure>>

\* form.parse(req) settles, lines 130-133: it rejects, or there is no audio
\* file, or there is one and transcribeAudio is called
ParseFormDone(p, outcome) ==
    /\ pc[p] = "parseForm"
    /\ UNCHANGED <<now, ticks, hasEnv, kbCache, vecCache, lastEnsure>>
    /\ CASE outcome = "reject" ->
              \E m \in ErrorMessages :
                  Throw(p, loc[p], calls[p], "parseForm", Thrown(NULL, m, NULL, NULL))
         [] outcome = "noAudio" ->
              Finish(p, loc[p], calls[p], 400, "text", MSG_NOAUDIO, "noAudio")
         [] outcome = "audio" ->
              Await(p, loc[p], [calls[p] EXCEPT !.stt = @ + 1], "transcribe")

\* The transcription settles, lines 45-46 and 133: it rejects, or returns r.text
TranscribeDone(p, ok, text) ==
    /\ pc[p] = "transcribe"
    /\ UNCHANGED <<now, ticks, hasEnv>>
    /\ IF ~ok
       THEN /\ \E m \in ErrorMessages :
                   Throw(p, loc[p], calls[p], "transcribe", Coded("OPENAI_STT", m))
            /\ UNCHANGED <<kbCache, vecCache, lastEnsure>>
       ELSE AfterQuery(p, [loc[p] EXCEPT !.queryText = QueryOfTranscript(text)], calls[p])

\* The body has been read, lines 135-137: JSON.parse throws or gives the body
ReadBodyDone(p, b) ==
    /\ pc[p] = "readBody"
    /\ UNCHANGED <<now, ticks, hasEnv>>
    /\ IF ~b.json
       THEN /\ \E m \in ErrorMessages :
                   Throw(p, loc[p], calls[p], "readBody", Thrown(NULL, m, NULL, NULL))
            /\ UNCHANGED <<kbCache, vecCache, lastEnsure>>
       ELSE AfterQuery(p, [loc[p] EXCEPT !.queryText = QueryOfBody(b)], calls[p])

\* A loadKB that drops the cached KB when the fetch fails
FetchFail_DropsCache(p, why) ==
    /\ pc[p] = "fetch"
    /\ why \in FetchFailures
    /\ UNCHANGED <<now, ticks, hasEnv, vecCache, lastEnsure>>
    /\ kbCache' = [at |-> 0, kb |-> NULL]
    /\ Finish(p, [loc[p] EXCEPT !.failed = "loadKB"], calls[p], 500, "text",
              MSG_ERROR, "error")

\* A loadKB that fetches a second time when the fetch fails
FetchFail_Retries(p, why) ==
    /\ pc[p] = "fetch"
    /\ why \in FetchFailures
    /\ UNCHANGED <<now, ticks, hasEnv, kbCache, vecCache, lastEnsure>>
    /\ IF calls[p].http < 2
       THEN Await(p, loc[p], [calls[p] EXCEPT !.http = @ + 1], "fetch")
       ELSE Throw(p, loc[p], calls[p], "loadKB", FetchError(why))

\* The fetch of the CMS fails, lines 60-71: loadKB throws
FetchFail(p, why) ==
    /\ pc[p] = "fetch"
    /\ why \in FetchFailures
    /\ UNCHANGED <<now, ticks, hasEnv, kbCache, vecCache, lastEnsure>>
    /\ Throw(p, loc[p], calls[p], "loadKB", FetchError(why))

\* A loadKB that empties the vector cache when it stores a fetched KB
FetchOk_DropsVectors(p, items) ==
    /\ pc[p] = "fetch"
    /\ UNCHANGED <<now, ticks, hasEnv>>
    /\ kbCache' = NewKbCache(loc[p].kbNow, items)
    /\ vecCache' = EmptyVecCache
    /\ LET kb == kbCache'.kb[1]
           l  == [loc[p] EXCEPT !.kb = kbCache'.kb, !.fetched = Some(items),
                                !.vecNow = now, !.preVec = Some(vecCache),
                                !.vectors = <<>>]
       IN  IF IsEmptyKB(kb)
           THEN /\ Finish(p, l, calls[p], 200, "text", MSG_EMPTY, "empty")
                /\ UNCHANGED lastEnsure
           ELSE /\ Await(p, l, [calls[p] EXCEPT !.embedKB = @ + 1], "embedEntry")
                /\ UNCHANGED lastEnsure

\* The fetch of the CMS succeeds with items, lines 71-97, and the handler
\* goes on to line 151
FetchOk(p, items) ==
    /\ pc[p] = "fetch"
    /\ UNCHANGED <<now, ticks, hasEnv, vecCache>>
    /\ kbCache' = NewKbCache(loc[p].kbNow, items)
    /\ AfterLoadKB(p, [loc[p] EXCEPT !.kb = kbCache'.kb, !.fetched = Some(items)],
                   calls[p])

\* An ensureVectors that stores the vectors it has when an embed fails
EmbedEntryFail_KeepsPartial(p) ==
    /\ pc[p] = "embedEntry"
    /\ UNCHANGED <<now, ticks, hasEnv, kbCache>>
    /\ vecCache' = NewVecCache(loc[p].vecNow, loc[p].kb[1], loc[p].vectors)
    /\ lastEnsure' = [failed |-> TRUE, count |-> Len(loc[p].kb[1].entries)]
    /\ Finish(p, [loc[p] EXCEPT !.failed = "ensureVectors"], calls[p], 500, "text",
              MSG_ERROR, "error")

\* An embed of ensureVectors' loop fails, line 112: ensureVectors throws
EmbedEntryFail(p) ==
    /\ pc[p] = "embedEntry"
    /\ UNCHANGED <<now, ticks, hasEnv, kbCache, vecCache>>
    /\ lastEnsure' = [failed |-> TRUE, count |-> Len(loc[p].kb[1].entries)]
    /\ \E m \in ErrorMessages :
           Throw(p, loc[p], calls[p], "ensureVectors", Coded("OPENAI_EMB", m))

\* An ensureVectors that, after its loop, returns the cache instead of
\* replacing it when another request has replaced it in the meantime
EmbedEntryOk_YieldsToOther(p) ==
    /\ pc[p] = "embedEntry"
    /\ UNCHANGED <<now, ticks, hasEnv, kbCache>>
    /\ LET kb      == loc[p].kb[1]
           e       == kb.entries[Len(loc[p].vectors) + 1]
           vectors == Append(loc[p].vectors, VectorOf(e))
           l       == [loc[p] EXCEPT !.vectors = vectors]
       IN  IF Len(vectors) < Len(kb.entries)
           THEN /\ Await(p, l, [calls[p] EXCEPT !.embedKB = @ + 1], "embedEntry")
                /\ UNCHANGED <<vecCache, lastEnsure>>
           ELSE /\ vecCache' = IF vecCache = loc[p].preVec[1]
                               THEN NewVecCache(l.vecNow, kb, vectors)
                               ELSE vecCache
                /\ lastEnsure' = NoEnsure
                /\ CallEmbedQuery(p, [l EXCEPT !.vecs = Some(vecCache')], calls[p])

\* An ensureVectors that stores each vector in the cache as it is pushed
EmbedEntryOk_Publishes(p) ==
    /\ pc[p] = "embedEntry"
    /\ UNCHANGED <<now, ticks, hasEnv, kbCache>>
    /\ LET kb      == loc[p].kb[1]
           e       == kb.entries[Len(loc[p].vectors) + 1]
           vectors == Append(loc[p].vectors, VectorOf(e))
           l       == [loc[p] EXCEPT !.vectors = vectors]
       IN  /\ vecCache' = NewVecCache(l.vecNow, kb, vectors)
           /\ IF Len(vectors) < Len(kb.entries)
              THEN /\ Await(p, l, [calls[p] EXCEPT !.embedKB = @ + 1], "embedEntry")
                   /\ UNCHANGED lastEnsure
              ELSE /\ lastEnsure' = NoEnsure
                   /\ CallEmbedQuery(p, [l EXCEPT !.vecs = Some(vecCache')], calls[p])

\* An embed of ensureVectors' loop returns, lines 112-116: the vector is
\* pushed, and the loop embeds the next entry or, after the last one, the
\* cache is replaced and the handler goes on to line 157
EmbedEntryOk(p) ==
    /\ pc[p] = "embedEntry"
    /\ UNCHANGED <<now, ticks, hasEnv, kbCache>>
    /\ LET kb      == loc[p].kb[1]
           e       == kb.entries[Len(loc[p].vectors) + 1]
           vectors == Append(loc[p].vectors, VectorOf(e))
           l       == [loc[p] EXCEPT !.vectors = vectors]
       IN  IF Len(vectors) < Len(kb.entries)
           THEN /\ Await(p, l, [calls[p] EXCEPT !.embedKB = @ + 1], "embedEntry")
                /\ UNCHANGED <<vecCache, lastEnsure>>
           ELSE /\ vecCache' = NewVecCache(l.vecNow, kb, vectors)
                /\ lastEnsure' = NoEnsure
                /\ CallEmbedQuery(p, [l EXCEPT !.vecs = Some(vecCache')], calls[p])

\* The embed of the query fails, line 157
EmbedQueryFail(p) ==
    /\ pc[p] = "embedQuery"
    /\ UNCHANGED <<now, ticks, hasEnv, kbCache, vecCache, lastEnsure>>
    /\ \E m \in ErrorMessages :
           Throw(p, loc[p], calls[p], "embedQuery", Coded("OPENAI_EMB", m))

\* The embed of the query returns, lines 157-164
EmbedQueryOk(p) ==
    /\ pc[p] = "embedQuery"
    /\ UNCHANGED <<now, ticks, hasEnv, kbCache, vecCache, lastEnsure>>
    /\ LET qVec == Embedding(loc[p].queryText)
           top  == topK(qVec, loc[p].vecs[1], TOP_K)
           l    == [loc[p] EXCEPT !.top = top]
       IN  IF ~GatePasses(top)
           THEN Finish(p, l, calls[p], 200, "text", MSG_NOMATCH, "noMatch")
           ELSE Finish(p, l, calls[p], 200, "text",
                       ComposeAnswer(top, loc[p].kb[1].entries), "answer")

\* Time passes: the clock moves to a later instant
Tick(k) ==
    /\ ticks < k
    /\ k <= MaxTicks
    /\ ticks' = k
    /\ now' = Instant(k)
    /\ UNCHANGED <<hasEnv, build, DEBUG, kbCache, vecCache, pc, loc, res, calls,
                   lastEnsure, args, result>>

\* What a request does
Step(p) ==
    \/ \E r \in Requests : StartRequest(p, r)
    \/ \E o \in {"reject", "noAudio", "audio"} : ParseFormDone(p, o)
    \/ \E ok \in BOOLEAN, t \in Fields : TranscribeDone(p, ok, t)
    \/ \E b \in Bodies : ReadBodyDone(p, b)
    \/ \E why \in FetchFailures : FetchFail(p, why)
    \/ \E items \in CmsContents : FetchOk(p, items)
    \/ EmbedEntryFail(p)
    \/ EmbedEntryOk(p)
    \/ EmbedQueryFail(p)
    \/ EmbedQueryOk(p)

\* Requests are served one at a time
Next ==
    \/ \E p \in Serial : Step(p)
    \/ \E k \in 1..MaxTicks : Tick(k)

Spec == Init /\ [][Next]_vars

----------------------------------------------------------------------------
(* The handler of part_001: ask.js with a debug mode (DEBUG, dbgPayload) and *)
(* a catch around each stage                                                *)

DebugInit ==
    /\ now = StartTime
    /\ ticks = 0
    /\ hasEnv \in BOOLEAN
    /\ kbCache = [at |-> 0, kb |-> NULL]
    /\ vecCache = EmptyVecCache
    /\ pc = [p \in Procs |-> "idle"]
    /\ loc = [p \in Procs |-> NoLocals]
    /\ res = [p \in Procs |-> NoResponse]
    /\ calls = [p \in Procs |-> NoCalls]
    /\ lastEnsure = NoEnsure
    /\ args = <<>>
    /\ result = NULL
    /\ build = "part_001"
    /\ DEBUG \in BOOLEAN

DebugSpec == DebugInit /\ [][Next]_vars

----------------------------------------------------------------------------
(* cosine on its own: _cosine.js called with two arrays of numbers *)

\* The largest absolute value of an element
MaxElem == 3

\* The arrays of up to two elements
CosineVectors ==
    {<<>>} \cup {<<x>> : x \in -MaxElem..MaxElem}
           \cup {<<x, y>> : x, y \in -MaxElem..MaxElem}

\* -v
Neg(v) == [i \in 1..Len(v) |-> -v[i]]

\* Arrays every array is paired with: empty, zero, shorter, longer, others
Probes == {<<>>, <<0>>, <<0, 0>>, <<0, 0, 0>>, <<1>>, <<0, 1>>, <<1, 1, 1>>, <<2, -1>>}

\* The calls: an array with itself, with its opposite and with the probes,
\* in both orders
CosineInputs ==
    UNION {{<<v, v>>, <<v, Neg(v)>>} \cup {<<v, w>> : w \in Probes}
                                     \cup {<<w, v>> : w \in Probes}
           : v \in CosineVectors \cup Probes}

CosineInit ==
    /\ now = StartTime
    /\ ticks = 0
    /\ hasEnv = TRUE
    /\ kbCache = [at |-> 0, kb |-> NULL]
    /\ vecCache = EmptyVecCache
    /\ pc = [p \in Procs |-> "idle"]
    /\ loc = [p \in Procs |-> NoLocals]
    /\ res = [p \in Procs |-> NoResponse]
    /\ calls = [p \in Procs |-> NoCalls]
    /\ lastEnsure = NoEnsure
    /\ args \in CosineInputs
    /\ result = NULL
    /\ build = "ask.js"
    /\ DEBUG = FALSE

\* cosine(a, b) is called and returns
CallCosine ==
    /\ result = NULL
    /\ result' = Some(cosine(args[1], args[2]))
    /\ UNCHANGED <<now, ticks, hasEnv, build, DEBUG, kbCache, vecCache, pc, loc,
                   res, calls, lastEnsure, args>>

CosineNext == CallCosine

CosineSpec == CosineInit /\ [][CosineNext]_vars

----------------------------------------------------------------------------
(* The extraction of the query text on its own, in each build of the
   handler: ask.js lines 125-143, part_001 lines 130-147, part_002 lines
   144-163 *)

Builds == {"ask.js", "part_001", "part_002"}

\* The sources of a query text: the parameters of a GET request, the fields
\* of a JSON body, the text of a transcription
QueryInputs ==
    [kind : {"get"}, text : Fields, alt : Fields]
    \cup [kind : {"json"}, text : Fields, alt : Fields]
    \cup [kind : {"audio"}, text : Fields, alt : {NULL}]

QueryInit ==
    /\ now = StartTime
    /\ ticks = 0
    /\ hasEnv = TRUE
    /\ kbCache = [at |-> 0, kb |-> NULL]
    /\ vecCache = EmptyVecCache
    /\ pc = [p \in Procs |-> "idle"]
    /\ loc = [p \in Procs |-> NoLocals]
    /\ res = [p \in Procs |-> NoResponse]
    /\ calls = [p \in Procs |-> NoCalls]
    /\ lastEnsure = NoEnsure
    /\ args \in QueryInputs
    /\ result = NULL
    /\ build \in Builds
    /\ DEBUG = FALSE

\* The harness stores the query text q
Extract(q) ==
    /\ result = NULL
    /\ result' = Some(q)
    /\ UNCHANGED <<now, ticks, hasEnv, build, DEBUG, kbCache, vecCache, pc, loc,
                   res, calls, lastEnsure, args>>

\* A GET request with the parameters text and q
ExtractGet ==
    /\ args.kind = "get"
    /\ Extract(QueryOfGet([method |-> "GET", multipart |-> FALSE,
                           text |-> args.text, q |-> args.alt]))

\* A JSON body with the fields text and question
ExtractBody ==
    /\ args.kind = "json"
    /\ Extract(QueryOfBody([json |-> TRUE, text |-> args.text, question |-> args.alt]))

\* A transcription whose text is r.text
ExtractTranscript ==
    /\ args.kind = "audio"
    /\ Extract(QueryOfTranscript(args.text))

QueryNext == ExtractGet \/ ExtractBody \/ ExtractTranscript

QuerySpec == QueryInit /\ [][QueryNext]_vars

----------------------------------------------------------------------------
(* Overlapping requests: the process serves a request while another is
   suspended at an await; the handlers interleave at their awaits *)

\* The requests that overlap: GET requests with a query
ConcRequests ==
    [method : {"GET"}, multipart : {FALSE},
     text : {Some(<<"a", "a", "b">>)}, q : {NULL}]

\* What the CMS may hold when they fetch it
ConcCms == {<<ItemA>>, <<ItemA, ItemB>>}

ConcInit == Init /\ hasEnv /\ vecCache = EmptyVecCache

\* The instants the clock moves through while they overlap
ConcTicks == 2

\* What one of the overlapping requests does, when its collaborators answer
ConcStep(p) ==
    \/ \E r \in ConcRequests : StartRequest(p, r)
    \/ \E items \in ConcCms : FetchOk(p, items)
    \/ EmbedEntryOk(p)
    \/ EmbedQueryOk(p)

ConcNext ==
    \/ \E p \in Procs : ConcStep(p)
    \/ \E k \in 1..ConcTicks : Tick(k)

ConcSpec == ConcInit /\ [][ConcNext]_vars

----------------------------------------------------------------------------
(* Requests whose collaborators always settle: every call the handler
   awaits returns or fails, in ask.js and in part_001 *)

\* One request of each shape the handler tells apart
LiveRequests ==
    [method : {"OPTIONS", "PUT"}, multipart : {FALSE}, text : {NULL}, q : {NULL}]
    \cup [method : {"POST"}, multipart : BOOLEAN, text : {NULL}, q : {NULL}]
    \cup [method : {"GET"}, multipart : {FALSE},
          text : {NULL, Some(<<"a">>)}, q : {NULL}]

\* The texts of their bodies and transcripts: none, or a question
LiveFields == {NULL, Some(<<"a", "a", "b">>)}

LiveBodies ==
    {[json |-> FALSE, text |-> NULL, question |-> NULL]}
    \cup [json : {TRUE}, text : LiveFields, question : {NULL}]

LiveCms == {<<>>, <<ItemA, ItemB>>}

\* One failure of the fetch of each kind
LiveFailures == {f \in FetchFailures : f.message = <<>> /\ f.body = <<>>}

\* The instants the clock moves through
LiveTicks == 1

LiveInit ==
    /\ now = StartTime
    /\ ticks = 0
    /\ hasEnv \in BOOLEAN
    /\ kbCache = [at |-> 0, kb |-> NULL]
    /\ vecCache = EmptyVecCache
    /\ pc = [p \in Procs |-> "idle"]
    /\ loc = [p \in Procs |-> NoLocals]
    /\ res = [p \in Procs |-> NoResponse]
    /\ calls = [p \in Procs |-> NoCalls]
    /\ lastEnsure = NoEnsure
    /\ args = <<>>
    /\ result = NULL
    /\ build \in {"ask.js", "part_001"}
    /\ DEBUG \in IF build = "part_001" THEN BOOLEAN ELSE {FALSE}

\* A call the request awaits settles
Settle(p) ==
    \/ \E o \in {"reject", "noAudio", "audio"} : ParseFormDone(p, o)
    \/ \E ok \in BOOLEAN, t \in LiveFields : TranscribeDone(p, ok, t)
    \/ \E b \in LiveBodies : ReadBodyDone(p, b)
    \/ \E why \in LiveFailures : FetchFail(p, why)
    \/ \E items \in LiveCms : FetchOk(p, items)
    \/ EmbedEntryFail(p)
    \/ EmbedEntryOk(p)
    \/ EmbedQueryFail(p)
    \/ EmbedQueryOk(p)

LiveNext ==
    \/ \E p \in Serial, r \in LiveRequests : StartRequest(p, r)
    \/ \E p \in Serial : Settle(p)
    \/ \E k \in 1..LiveTicks : Tick(k)

\* Every call that is awaited settles in the end
LiveSpec ==
    LiveInit /\ [][LiveNext]_vars /\ \A p \in Serial : WF_vars(Settle(p))

----------------------------------------------------------------------------
(* Properties of the caches *)

\* The request has called loadKB
CalledLoadKB(p) == loc[p].preKb # NULL

\* The request has called ensureVectors
CalledEnsureVectors(p) == loc[p].preVec # NULL

\* C1: loadKB returns the cached KB without calling the KB fetch exactly when
\* the cache it finds holds a KB and is younger than KB_CACHE_MS (5 minutes);
\* otherwise, the age KB_CACHE_MS included, it calls the fetch once, and when
\* the fetch succeeds the cache holds exactly the entries of the fetched
\* items, stamped with loadKB's `now`.
C1_LoadKBCacheRule ==
    \A p \in Procs :
        CalledLoadKB(p) =>
            LET found == loc[p].preKb[1]
                valid == found.kb # NULL /\ loc[p].kbNow - found.at < 5 * 60 * 1000
            IN  /\ valid <=> calls[p].fetchFn = 0
                /\ valid => /\ loc[p].kb = found.kb
                            /\ kbCache = found
                /\ ~valid => calls[p].fetchFn = 1
                /\ loc[p].fetched # NULL =>
                      /\ kbCache = [at |-> loc[p].kbNow,
                                    kb |-> Some([entries |-> Entries(loc[p].fetched[1])])]
                      /\ loc[p].kb = kbCache.kb

\* A KB found at the age KB_CACHE_MS exactly has been fetched again, with
\* success, while the clock moved on during the fetch
C1_Witness ==
    \E p \in Procs :
        /\ CalledLoadKB(p)
        /\ loc[p].preKb[1].kb # NULL
        /\ loc[p].kbNow - loc[p].preKb[1].at = KB_CACHE_MS
        /\ loc[p].fetched # NULL
        /\ loc[p].kb # loc[p].preKb[1].kb
        /\ now > loc[p].kbNow

\* C2: when the KB fetch fails (missing credentials, network error, non-OK
\* response, malformed body), the KB cache is what loadKB found, the request
\* ends with the server error, and the cache never holds anything but null
\* or the complete entry list of one fetched response.
C2_FetchFailureKeepsKB ==
    /\ \A p \in Procs :
          /\ loc[p].failed = "loadKB" =>
                /\ kbCache = loc[p].preKb[1]
                /\ pc[p] = "done"
                /\ res[p] = [status |-> 500, key |-> "text", text |-> MSG_ERROR, dbg |-> NULL]
                /\ loc[p].kb = NULL
          /\ pc[p] = "fetch" => kbCache = loc[p].preKb[1]
    /\ \/ kbCache.kb = NULL
       \/ \E items \in CmsContents : kbCache.kb[1].entries = Entries(items)

\* A refresh of a populated cache has failed in the fetch itself
C2_Witness ==
    \E p \in Procs :
        /\ loc[p].failed = "loadKB"
        /\ calls[p].http = 1
        /\ kbCache.kb # NULL
        /\ Len(kbCache.kb[1].entries) > 0

\* C3: ensureVectors recomputes exactly when the cache it finds (a) holds no
\* vectors, or (b) is of another model, or (c) counts another number of
\* entries than the KB, or (d) is older than VEC_CACHE_MS (30 minutes);
\* otherwise, the age VEC_CACHE_MS included, it returns the cache unchanged.
C3_EnsureVectorsRule ==
    \A p \in Procs :
        CalledEnsureVectors(p) =>
            LET found == loc[p].preVec[1]
                stale == \/ found.vectors = <<>>
                         \/ found.model # EMBEDDING_MODEL
                         \/ found.count # Len(loc[p].kb[1].entries)
                         \/ loc[p].vecNow - found.at > 30 * 60 * 1000
            IN  /\ stale <=> calls[p].embedKB > 0
                /\ ~stale => /\ loc[p].vecs = Some(found)
                             /\ vecCache = found

\* A cache found at the age VEC_CACHE_MS exactly has been returned
C3_Witness ==
    \E p \in Procs :
        /\ CalledEnsureVectors(p)
        /\ loc[p].vecNow - loc[p].preVec[1].at = VEC_CACHE_MS
        /\ loc[p].vecs = loc[p].preVec
        /\ calls[p].embedKB = 0

\* In this step the request calls ensureVectors (line 154)
EnsureCalled(p) ==
    /\ pc[p] \in {"idle", "done", "fetch", "readBody", "transcribe"}
    /\ pc'[p] \in {"embedEntry", "embedQuery"}

\* C4: once a recomputation has stored a generation, a later ensureVectors
\* call within VEC_CACHE_MS of it, for a KB of the same entry count, makes no
\* embedding call for the entries and returns that generation, which stays
\* in the cache until the request has ended.
C4_HitWithinTtl ==
    [][\A p \in Procs :
          /\ ( /\ EnsureCalled(p)
               /\ vecCache.vectors # <<>>
               /\ vecCache.model = EMBEDDING_MODEL
               /\ vecCache.count = Len(loc'[p].kb[1].entries)
               /\ now - vecCache.at <= VEC_CACHE_MS )
             => /\ vecCache' = vecCache
                /\ loc'[p].vecs = Some(vecCache)
                /\ calls'[p].embedKB = 0
                /\ pc'[p] = "embedQuery"
          /\ pc[p] = "embedQuery"
             => /\ calls'[p].embedKB = calls[p].embedKB
                /\ vecCache' = vecCache
      ]_vars

\* A request has been answered from a generation computed for an earlier KB
\* of the same entry count, after the KB was fetched again
C4_Witness ==
    \E p \in Procs :
        /\ pc[p] = "done"
        /\ loc[p].path = "answer"
        /\ loc[p].fetched # NULL
        /\ calls[p].embedKB = 0
        /\ loc[p].vecs = Some(vecCache)
        /\ vecCache.at < loc[p].kbNow

\* The vector an entry gets: its id and the embedding of its text
ExpectedVectors(entries) ==
    [i \in 1..Len(entries) |->
        [id |-> entries[i].id, embedding |-> Embedding(EmbedInput(entries[i]))]]

\* C5: when ensureVectors is given a KB whose entry count differs from the
\* cached count, it embeds every entry of that KB, one call each, keeps the
\* cache as it found it until the last one, and then replaces the cache with
\* the new vectors, the KB's entry count, the current model and its `now`.
C5_CountChangeRecomputesAll ==
    \A p \in Procs :
        ( /\ CalledEnsureVectors(p)
          /\ loc[p].preVec[1].count # Len(loc[p].kb[1].entries) )
        => LET entries == loc[p].kb[1].entries
           IN  /\ pc[p] = "embedEntry" =>
                     /\ vecCache = loc[p].preVec[1]
                     /\ calls[p].embedKB = Len(loc[p].vectors) + 1
                     /\ calls[p].embedKB <= Len(entries)
               /\ pc[p] \in {"embedQuery", "done"} /\ loc[p].failed # "ensureVectors" =>
                     /\ calls[p].embedKB = Len(entries)
                     /\ vecCache = [at |-> loc[p].vecNow,
                                    model |-> EMBEDDING_MODEL,
                                    count |-> Len(entries),
                                    vectors |-> ExpectedVectors(entries)]
                     /\ loc[p].vecs = Some(vecCache)

\* A generation of the current model, within its TTL, has been replaced
\* because the KB has four entries instead of its own number
C5_Witness ==
    \E p \in Procs :
        /\ CalledEnsureVectors(p)
        /\ loc[p].preVec[1].vectors # <<>>
        /\ loc[p].preVec[1].model = EMBEDDING_MODEL
        /\ loc[p].vecNow - loc[p].preVec[1].at <= VEC_CACHE_MS
        /\ loc[p].preVec[1].count # 4
        /\ calls[p].embedKB = 4
        /\ vecCache.count = 4
        /\ pc[p] = "done"

\* The vector cache after a failed recomputation is the one ensureVectors found
KeptOnEmbedFailure ==
    \A p \in Procs :
        /\ loc[p].failed = "ensureVectors" =>
              /\ vecCache = loc[p].preVec[1]
              /\ pc[p] = "done"
              /\ res[p] = [status |-> 500, key |-> "text", text |-> MSG_ERROR, dbg |-> NULL]
              /\ calls[p].embedQ = 0
              /\ loc[p].vecs = NULL
        /\ pc[p] = "embedEntry" => vecCache = loc[p].preVec[1]

\* ensureVectors starts a recomputation at the first entry
RestartsFromFirst(p) ==
    /\ pc'[p] = "embedEntry"
    /\ loc'[p].vectors = <<>>
    /\ calls'[p].embedKB = 1

\* C6 as stated: when an embedding call of a recomputation fails, the
\* request ends with the server error and the vector cache is what it was
\* before the call; the next ensureVectors call sees the cache as stale and
\* recomputes from the first entry.
C6_AsStated ==
    /\ []KeptOnEmbedFailure
    /\ [][\A p \in Procs :
             EnsureCalled(p) /\ lastEnsure.failed => RestartsFromFirst(p)]_vars

\* C6, amended: ... the next ensureVectors call, when it is given a KB of
\* the same entry count as the failed one, sees the cache as stale and
\* recomputes from the first entry.
C6_RetryRecomputes ==
    /\ []KeptOnEmbedFailure
    /\ [][\A p \in Procs :
             ( /\ EnsureCalled(p)
               /\ lastEnsure.failed
               /\ lastEnsure.count = Len(loc'[p].kb[1].entries) )
             => RestartsFromFirst(p)]_vars

\* After a failed recomputation over a populated cache, the next call is
\* recomputing from the first entry
C6_Witness ==
    \E p \in Procs :
        /\ pc[p] = "embedEntry"
        /\ lastEnsure.failed
        /\ lastEnsure.count = Len(loc[p].kb[1].entries)
        /\ loc[p].vectors = <<>>
        /\ calls[p].embedKB = 1
        /\ vecCache.vectors # <<>>

----------------------------------------------------------------------------
(* Properties of the handler's answers *)

\* The request has ended after its query text was extracted (lines 126-143)
Extracted(p) ==
    /\ pc[p] = "done"
    /\ loc[p].path \notin {"options", "method", "noAudio"}
    /\ loc[p].failed \notin {"parseForm", "transcribe", "readBody"}

\* C7: a request whose query text is empty after trimming (missing field,
\* blank text, empty transcript) is answered with status 200 and the fixed
\* clarification message, without any embedding call or KB fetch, and no
\* step of it changes either cache.
C7_EmptyQueryClarifies ==
    /\ [](\A p \in Procs :
            Extracted(p) /\ loc[p].queryText = <<>> =>
                /\ res[p] = [status |-> 200, key |-> "text", text |-> MSG_CLARIFY, dbg |-> NULL]
                /\ calls[p].embedKB = 0
                /\ calls[p].embedQ = 0
                /\ calls[p].fetchFn = 0
                /\ calls[p].http = 0)
    /\ [][\A p \in Procs :
             \/ pc'[p] \in {"parseForm", "readBody", "transcribe"}
             \/ (Extracted(p) /\ loc[p].queryText = <<>>)'
             => UNCHANGED <<kbCache, vecCache>>]_vars

\* An empty transcript has been answered while both caches are populated
C7_Witness ==
    \E p \in Procs :
        /\ Extracted(p)
        /\ loc[p].queryText = <<>>
        /\ calls[p].stt = 1
        /\ kbCache.kb # NULL
        /\ vecCache.vectors # <<>>

\* C8: when the KB loaded for a request has no entries, the request is
\* answered with status 200 and the fixed "guide is empty" message, without
\* any embedding call, and the vector cache is left as it is.
C8_EmptyKBAnswers ==
    /\ [](\A p \in Procs :
            loc[p].kb # NULL /\ Len(loc[p].kb[1].entries) = 0 =>
                /\ pc[p] = "done"
                /\ res[p] = [status |-> 200, key |-> "text", text |-> MSG_EMPTY, dbg |-> NULL]
                /\ calls[p].embedKB = 0
                /\ calls[p].embedQ = 0
                /\ ~CalledEnsureVectors(p))
    /\ [][\A p \in Procs :
             loc'[p].kb # NULL /\ Len(loc'[p].kb[1].entries) = 0
             => vecCache' = vecCache]_vars

\* A fetch whose only item has a blank answer gave an empty KB, while the
\* vector cache holds a generation
C8_Witness ==
    \E p \in Procs :
        /\ pc[p] = "done"
        /\ loc[p].fetched # NULL
        /\ Len(loc[p].fetched[1]) = 1
        /\ loc[p].kb # NULL
        /\ loc[p].kb[1].entries = <<>>
        /\ vecCache.vectors # <<>>
        /\ vecCache.model = EMBEDDING_MODEL

\* The request has ended after scoring the candidates (lines 158-164)
Retrieved(p) == pc[p] = "done" /\ loc[p].vecs # NULL /\ loc[p].failed = ""

\* The score s * m * 2^e is less than 0.82 = 82 / 100, compared exactly
\* (a score's exponent e is negative)
Below082(s) ==
    \/ s.s <= 0
    \/ s.e < 0 /\ BigCmp(BigMulDigit(s.m, 100), BigShl(BigOf(82), -s.e)) < 0

Candidate(p, j) ==
    LET v == loc[p].vecs[1].vectors[j]
    IN  [id |-> v.id, score |-> Scores[<<Embedding(loc[p].queryText), v.embedding>>]]

\* The answer the loaded KB has for an id
AnswerOf(p, id) ==
    LET entries == loc[p].kb[1].entries
        last == CHOOSE i \in 1..Len(entries) :
                    /\ entries[i].id = id
                    /\ \A j \in (i + 1)..Len(entries) : entries[j].id # id
    IN  entries[last].answer

\* The loaded KB has an entry with the id
InKB(p, id) == \E i \in 1..Len(loc[p].kb[1].entries) : loc[p].kb[1].entries[i].id = id

\* C10: when the gate passes, the text sent is made of the answers of all
\* the selected candidates, not of the best alone: the candidates are the 3
\* best-scoring cached vectors (all of them when there are fewer), in
\* descending order of score, and the text is their answers in that order
\* with one space between two answers (a candidate without an entry in the
\* loaded KB has no answer to give).
C10_AnswerJoinsTopK ==
    \A p \in Procs :
        Retrieved(p) /\ res[p].text # MSG_NOMATCH =>
            LET top  == loc[p].top
                n    == Len(loc[p].vecs[1].vectors)
                k    == IF n < 3 THEN n ELSE 3
                have == SelectSeq(top, LAMBDA t : InKB(p, t.id))
            IN  /\ Len(top) = k
                /\ \A i \in 1..k : \E j \in 1..n : top[i] = Candidate(p, j)
                /\ \A i, j \in 1..k : i < j => ~ScoreLess(top[i].score, top[j].score)
                /\ \A j \in 1..n :
                      ScoreLess(top[k].score, Candidate(p, j).score)
                      => \E i \in 1..k : top[i] = Candidate(p, j)
                /\ res[p].status = 200
                /\ res[p].text =
                      Join([i \in 1..Len(have) |-> AnswerOf(p, have[i].id)], <<" ">>)

\* Of four candidates the three best were answered, in the order of their
\* scores, which is not the order of the KB
C10_Witness ==
    \E p \in Procs :
        /\ Retrieved(p)
        /\ Len(loc[p].vecs[1].vectors) = 4
        /\ res[p].text = <<"Z", " ", "X", " ", "W">>

\* The request has ended with a composed answer (line 164)
Composed(p) == Retrieved(p) /\ loc[p].path = "answer"

\* The answers the composed text is made of (no answer of the modelled CMS
\* holds a space)
PiecesOf(p) == LET parts == Split(res[p].text, " ")
               IN  {parts[i] : i \in 1..Len(parts)}

\* The candidates of the request that have the id
CandidatesOf(p, id) == {i \in 1..Len(loc[p].top) : loc[p].top[i].id = id}

\* C11 as stated: every entry whose answer is in a composed response is a
\* top-K candidate whose own score is at or above the threshold; no
\* candidate scoring below the threshold contributes text.
C11_AsStated ==
    \A p \in Procs :
        Composed(p) =>
            \A i \in 1..Len(loc[p].kb[1].entries) :
                LET e == loc[p].kb[1].entries[i]
                IN  e.answer \in PiecesOf(p) =>
                        /\ CandidatesOf(p, e.id) # {}
                        /\ \A c \in CandidatesOf(p, e.id) :
                               ~Below082(loc[p].top[c].score)

\* C11, amended: every entry whose answer is in a composed response is one
\* of the at most 3 top-K candidates, and the best candidate's score is at
\* or above the threshold; the other candidates contribute their answers
\* whatever their own scores, which are at most the best one's.
C11_ComposedFromTopK ==
    \A p \in Procs :
        Composed(p) =>
            /\ Len(loc[p].top) \in 1..3
            /\ ~Below082(loc[p].top[1].score)
            /\ \A c \in 1..Len(loc[p].top) :
                   ~ScoreLess(loc[p].top[1].score, loc[p].top[c].score)
            /\ \A i \in 1..Len(loc[p].kb[1].entries) :
                   LET e == loc[p].kb[1].entries[i]
                   IN  e.answer \in PiecesOf(p) <=> CandidatesOf(p, e.id) # {}

\* A candidate whose own score is below the threshold has contributed its
\* answer, after the best candidate's
C11_Witness ==
    \E p \in Procs :
        /\ Composed(p)
        /\ Len(loc[p].top) = 2
        /\ Below082(loc[p].top[2].score)
        /\ InKB(p, loc[p].top[2].id)
        /\ res[p].text = <<"X", " ", "Y">>


----------------------------------------------------------------------------
(* Properties of cosine *)

\* Every element of v is 0 (the empty array included): v has zero norm
ZeroNorm(v) == \A i \in 1..Len(v) : v[i] = 0

\* C12: cosine(a, b) returns exactly 0, and not NaN, whenever a or b has
\* zero norm: a zero array, an empty array, two of them, also when the two
\* arrays differ in length.
C12_ZeroNormGivesZero ==
    result # NULL /\ (ZeroNorm(args[1]) \/ ZeroNorm(args[2])) =>
        /\ ~result[1].nan
        /\ result[1] = Zero

\* cosine has returned 0 for a non-zero array and a shorter zero array,
\* where the denominator is NaN
C12_Witness ==
    /\ result = Some(Zero)
    /\ ~ZeroNorm(args[1])
    /\ args[2] # <<>>
    /\ ZeroNorm(args[2])
    /\ Len(args[2]) < Len(args[1])

\* C13 as stated: for a non-zero v, cosine(v, v) is 1 and cosine(v, -v) is
\* -1, and the score of two arrays of equal length lies in [-1, 1].
C13_AsStated ==
    result # NULL =>
        LET a == args[1]
            b == args[2]
            r == result[1]
        IN  /\ ~ZeroNorm(a) /\ b = a => r = NumOf(1)
            /\ ~ZeroNorm(a) /\ b = Neg(a) => r = NumOf(-1)
            /\ Len(a) = Len(b) =>
                   /\ ~r.nan
                   /\ NumCmp(r, NumOf(1)) <= 0
                   /\ NumCmp(NumOf(-1), r) <= 0

----------------------------------------------------------------------------
(* Properties of the handler's errors *)

\* The request failed in a call to a collaborator: the CMS, the embedding
\* service or the transcription service
CollaboratorFailed(p) ==
    \/ loc[p].failed \in {"ensureVectors", "embedQuery", "transcribe"}
    \/ loc[p].failed = "loadKB" /\ calls[p].http > 0

\* C14: when a call to a collaborator fails (the KB fetch, an embedding of
\* the recomputation, the embedding of the query, the transcription), the
\* request ends with status 500, and the handler makes no call to any
\* collaborator after the failure: no call is made a second time.
C14_FailureEndsRequest ==
    /\ [](\A p \in Procs :
            /\ calls[p].http <= 1
            /\ calls[p].stt <= 1
            /\ calls[p].embedQ <= 1
            /\ calls[p].embedKB <= Len(loc[p].vectors) + 1
            /\ CollaboratorFailed(p) =>
                  /\ pc[p] = "done"
                  /\ res[p].status = 500
                  /\ loc[p].failed = "transcribe" =>
                        calls[p] = [NoCalls EXCEPT !.stt = 1]
                  /\ loc[p].failed = "loadKB" =>
                        calls[p].embedKB = 0 /\ calls[p].embedQ = 0
                  /\ loc[p].failed = "ensureVectors" =>
                        /\ calls[p].embedKB = Len(loc[p].vectors) + 1
                        /\ calls[p].embedQ = 0)
    /\ [][\A p \in Procs :
             ( \/ pc[p] = "fetch" /\ loc'[p].failed = "loadKB"
               \/ pc[p] = "embedEntry" /\ loc'[p].failed = "ensureVectors"
               \/ pc[p] = "embedQuery" /\ loc'[p].failed = "embedQuery"
               \/ pc[p] = "transcribe" /\ loc'[p].failed = "transcribe" )
             => /\ calls'[p] = calls[p]
                /\ pc'[p] = "done"
                /\ res'[p].status = 500]_vars

\* The third embedding of a recomputation has failed, after two that
\* returned, and the request has ended with the server error
C14_Witness ==
    \E p \in Procs :
        /\ loc[p].failed = "ensureVectors"
        /\ Len(loc[p].vectors) = 2
        /\ calls[p].embedKB = 3
        /\ calls[p].embedQ = 0
        /\ pc[p] = "done"
        /\ res[p].status = 500

\* The stage name part_001 reports for the place the request failed at
WhereOf(stage) ==
    CASE stage = "loadKB" -> "loadKB"
      [] stage = "ensureVectors" -> "ensureVectors"
      [] stage = "embedQuery" -> "embed_query"
      [] OTHER -> "fatal"

\* C15: with debug mode off, the body of a 500 response is the same generic
\* text whatever stage failed and whatever the error's message, code, status
\* or body; the failing stage and the detail are in the response only when
\* debug mode is on.
C15_GenericUnlessDebug ==
    \A p \in Procs :
        /\ res[p].dbg # NULL => DEBUG /\ res[p].status = 500
        /\ res[p].status = 500 =>
              /\ loc[p].err # NULL
              /\ ~DEBUG =>
                    res[p] = [status |-> 500, key |-> "text",
                              text |-> <<"Server error. Please try again in a moment.">>,
                              dbg |-> NULL]
              /\ DEBUG =>
                    /\ res[p].dbg # NULL
                    /\ res[p].dbg[1].where = WhereOf(loc[p].failed)
                    /\ res[p].text = <<>>

\* With debug mode off, a fetch the CMS refused, with a status and a body,
\* has been answered with the generic text
C15_Witness ==
    \E p \in Procs :
        /\ ~DEBUG
        /\ loc[p].failed = "loadKB"
        /\ loc[p].err # NULL
        /\ loc[p].err[1].status = Some("401")
        /\ loc[p].err[1].body # Some(<<>>)
        /\ res[p].status = 500
        /\ res[p].text = MSG_ERROR

----------------------------------------------------------------------------
(* C16 *)

\* The raw items whose answer, as a string, has something besides white space
Answered(items) ==
    {i \in 1..Len(items) :
        items[i].answer # NULL /\ \E j \in 1..Len(items[i].answer[1]) :
                                      ~IsSpace(items[i].answer[1][j])}

\* Every entry of kb has a non-empty answer with no white space around it
AllAnswered(kb) ==
    \A i \in 1..Len(kb.entries) :
        /\ kb.entries[i].answer # <<>>
        /\ ~IsSpace(kb.entries[i].answer[1])
        /\ ~IsSpace(kb.entries[i].answer[Len(kb.entries[i].answer)])

\* C16: every entry of the KB cache has a non-empty, trimmed answer, whatever
\* refreshes succeeded or failed before. An item whose answer is empty or
\* blank gives no entry: a fetched list gives as many entries as it has
\* answered items, so the KB a request holds, the vectors it computes (one
\* per entry of that KB, same ids) and the answers it composes have none.
C16_AnswersNeverEmpty ==
    /\ kbCache.kb # NULL => AllAnswered(kbCache.kb[1])
    /\ \A p \in Procs :
        /\ loc[p].kb # NULL => AllAnswered(loc[p].kb[1])
        /\ loc[p].fetched # NULL =>
              Len(loc[p].kb[1].entries) = Cardinality(Answered(loc[p].fetched[1]))
        /\ loc[p].kb # NULL =>
              /\ Len(loc[p].vectors) <= Len(loc[p].kb[1].entries)
              /\ \A i \in 1..Len(loc[p].vectors) :
                    loc[p].vectors[i].id = loc[p].kb[1].entries[i].id
        /\ loc[p].path = "answer" =>
              \A i \in 1..Len(loc[p].top) :
                  LET e == ById(loc[p].kb[1].entries, loc[p].top[i].id)
                  IN  e # NULL => e[1].answer # <<>>

\* The CMS answered with an item whose answer is blank among others, the
\* cache holds the KB made of the others, and the request recomputed the
\* vectors and composed an answer
C16_Witness ==
    \E p \in Procs :
        /\ pc[p] = "done" /\ loc[p].path = "answer"
        /\ loc[p].fetched # NULL
        /\ Cardinality(Answered(loc[p].fetched[1])) < Len(loc[p].fetched[1])
        /\ kbCache.kb = loc[p].kb
        /\ Len(loc[p].vectors) = Len(loc[p].kb[1].entries)
        /\ Len(loc[p].vectors) > 0

----------------------------------------------------------------------------
(* C17 *)

\* The field the claim selects: text, or the other one (question, q) when
\* text is absent or empty
ClaimedField(a) ==
    IF a.text # NULL /\ Len(a.text[1]) > 0 THEN a.text ELSE a.alt

\* s without the white space at its ends
Trimmed(s) ==
    LET inside == {i \in 1..Len(s) : ~IsSpace(s[i])}
    IN  IF inside = {} THEN <<>>
        ELSE SubSeq(s, CHOOSE i \in inside : \A j \in inside : i <= j,
                       CHOOSE i \in inside : \A j \in inside : j <= i)

\* C17, as stated: the query text is the trimmed transcript for an upload,
\* the trimmed text field of a JSON body, or its question field when text is
\* absent or empty, and the trimmed text parameter of a GET request, or q
\* when text is absent or empty; a missing field gives the empty string.
C17_AsStated ==
    result # NULL =>
        LET field == IF args.kind = "audio" THEN args.text ELSE ClaimedField(args)
        IN  result[1] = IF field = NULL THEN <<>> ELSE Trimmed(field[1])

----------------------------------------------------------------------------
(* C18 *)

\* Neither score is less than the other
Tied(s, t) == ~ScoreLess(s, t) /\ ~ScoreLess(t, s)

\* Candidate(p, u) comes before Candidate(p, v) in a descending order that
\* keeps the cached vectors' order among equal scores
Before(p, u, v) ==
    \/ ScoreLess(Candidate(p, v).score, Candidate(p, u).score)
    \/ Tied(Candidate(p, u).score, Candidate(p, v).score) /\ u < v

\* C18: topK returns at most 3 candidates, the best of the cached vectors'
\* candidates, in descending order of score, and two candidates with equal
\* scores are in the order their vectors have in the vector cache: the
\* result is the candidates of distinct positions f[1], f[2], ... of the
\* cache, each before the next and before every position left out.
C18_TopKStableDescending ==
    \A p \in Procs :
        Retrieved(p) =>
            LET top == loc[p].top
                n   == Len(loc[p].vecs[1].vectors)
            IN  /\ Len(top) <= 3
                /\ Len(top) = IF n < 3 THEN n ELSE 3
                /\ \E f \in [1..Len(top) -> 1..n] :
                      /\ \A i \in 1..Len(top) : top[i] = Candidate(p, f[i])
                      /\ \A i, j \in 1..Len(top) : i < j => Before(p, f[i], f[j])
                      /\ \A u \in 1..n :
                            (\A i \in 1..Len(top) : f[i] # u)
                            => \A i \in 1..Len(top) : Before(p, f[i], u)

\* Of four cached vectors, the two best have the same positive score and are
\* returned first, and one vector is left out
C18_Witness ==
    \E p \in Procs :
        /\ Retrieved(p)
        /\ Len(loc[p].vecs[1].vectors) > 3
        /\ Len(loc[p].top) = 3
        /\ loc[p].top[1].score.s > 0
        /\ Tied(loc[p].top[1].score, loc[p].top[2].score)
        /\ loc[p].top[1].id # loc[p].top[2].id
        /\ ~Tied(loc[p].top[2].score, loc[p].top[3].score)

----------------------------------------------------------------------------
(* C19 *)

\* The candidates of the request whose id the loaded KB has, in score order
Present(p) == SelectSeq(loc[p].top, LAMBDA t : InKB(p, t.id))

\* C19: when a request composes its answer and a candidate's id is not in
\* the KB the request loaded, the candidate is skipped without an error: the
\* response is 200 with the answers of the remaining candidates, in score
\* order, joined with one space (the empty text when none remains), and
\* nothing was thrown.
C19_StaleCandidateSkipped ==
    \A p \in Procs :
        Composed(p) /\ Len(Present(p)) < Len(loc[p].top) =>
            /\ res[p].status = 200
            /\ res[p].key = "text"
            /\ res[p].dbg = NULL
            /\ loc[p].failed = ""
            /\ loc[p].err = NULL
            /\ res[p].text = Join([i \in 1..Len(Present(p)) |->
                                      AnswerOf(p, Present(p)[i].id)], <<" ">>)
            /\ res[p].text # MSG_ERROR

\* The KB was fetched again with other ids while the vectors of the earlier
\* KB are still served: the best candidate has an entry and another has not
C19_Witness ==
    \E p \in Procs :
        /\ Composed(p)
        /\ Len(Present(p)) < Len(loc[p].top)
        /\ Present(p) # <<>>
        /\ res[p].text # <<>>

----------------------------------------------------------------------------
(* C20 *)

\* The request is inside ensureVectors' loop, or ensureVectors threw
Recomputing(p) ==
    \/ pc[p] = "embedEntry"
    \/ pc[p] = "done" /\ loc[p].failed = "ensureVectors"

\* C20: in every reachable state the vector cache is a whole generation: its
\* count is the number of its vectors, and while a recomputation is under
\* way, and after one has failed, it is the cache the recomputation found.
\* The cache changes only in the step that ends a recomputation with its
\* last embedding: the new cache is stamped with ensureVectors' `now` and the
\* model, and holds one vector per entry of the KB given to ensureVectors,
\* with that entry's id, in the order of the entries.
C20_WholeGenerations ==
    /\ [](/\ vecCache.count = Len(vecCache.vectors)
          /\ \A p \in Procs : Recomputing(p) => vecCache = loc[p].preVec[1])
    /\ [][vecCache' # vecCache =>
            \E p \in Procs :
                LET entries == loc[p].kb[1].entries
                IN  /\ pc[p] = "embedEntry"
                    /\ pc'[p] = "embedQuery"
                    /\ Len(loc[p].vectors) = Len(entries) - 1
                    /\ loc'[p].failed = ""
                    /\ vecCache' = [at |-> loc[p].vecNow,
                                    model |-> EMBEDDING_MODEL,
                                    count |-> Len(entries),
                                    vectors |-> ExpectedVectors(entries)]]_vars

\* A recomputation for a KB of another size has embedded some entries, not
\* all, while the cache holds the whole generation of this model computed
\* before
C20_Witness ==
    \E p \in Procs :
        /\ pc[p] = "embedEntry"
        /\ loc[p].vectors # <<>>
        /\ vecCache.model = EMBEDDING_MODEL
        /\ vecCache.vectors # <<>>
        /\ vecCache.count # Len(loc[p].kb[1].entries)
        /\ vecCache.count = Len(vecCache.vectors)

----------------------------------------------------------------------------
(* C21 *)

\* No request is between its arrival and its response
Quiet == \A p \in Procs : pc[p] \in {"idle", "done"}

----------------------------------------------------------------------------
(* C22 *)

\* C22, as stated: whenever a request has scored its query against the
\* vectors ensureVectors returned, every one of those vectors whose id the
\* request's KB has is the embedding of the text (question patterns and
\* answer) that entry has in that KB.
C22_AsStated ==
    \A p \in Procs :
        Retrieved(p) =>
            \A i \in 1..Len(loc[p].vecs[1].vectors) :
                LET v == loc[p].vecs[1].vectors[i]
                    e == ById(loc[p].kb[1].entries, v.id)
                IN  e # NULL => v.embedding = Embedding(EmbedInput(e[1]))

----------------------------------------------------------------------------
(* C23 *)

\* The request's loadKB fetched a KB to replace one that had aged out, with
\* as many entries as the one replaced, at a time when the cached vectors
\* were not stale for the KB replaced
SameSizeRefresh(p) ==
    /\ loc[p].fetched # NULL
    /\ loc[p].preKb[1].kb # NULL
    /\ loc[p].preVec # NULL
    /\ Len(loc[p].kb[1].entries) = Len(loc[p].preKb[1].kb[1].entries)
    /\ ~VecStale(loc[p].preVec[1], loc[p].preKb[1].kb[1], loc[p].vecNow)

\* C23: the KB cache changes only in the step in which loadKB stores what it
\* fetched, and that step leaves the vector cache as it is; the vector cache
\* changes only in a step of ensureVectors' loop, and the steps of that loop
\* leave the KB cache as it is and make no KB fetch. A request whose KB
\* refresh gave as many entries as the KB replaced, while the vectors were
\* not stale otherwise, makes no embedding call for a recomputation.
C23_CachesDecoupled ==
    /\ [](\A p \in Procs : SameSizeRefresh(p) => calls[p].embedKB = 0)
    /\ [][/\ kbCache' # kbCache =>
                /\ \E p \in Procs : pc[p] = "fetch"
                /\ vecCache' = vecCache
          /\ vecCache' # vecCache => \E p \in Procs : pc[p] = "embedEntry"
          /\ \A p \in Procs :
                pc[p] = "embedEntry" =>
                    /\ kbCache' = kbCache
                    /\ calls'[p].http = calls[p].http
                    /\ calls'[p].fetchFn = calls[p].fetchFn
                    /\ pc'[p] # "fetch"]_vars

\* A KB that had aged out was replaced by another KB of the same size, and
\* the request was answered from the vectors cached before, with no
\* embedding call but the query's
C23_Witness ==
    \E p \in Procs :
        /\ pc[p] = "done" /\ loc[p].path = "answer"
        /\ SameSizeRefresh(p)
        /\ loc[p].kb # loc[p].preKb[1].kb
        /\ calls[p].embedKB = 0
        /\ calls[p].embedQ = 1
        /\ vecCache = loc[p].preVec[1]

----------------------------------------------------------------------------
(* C24 *)

\* The request's loadKB found the KB cache stale and fetched the KB
FetchedOwnKB(p) ==
    /\ loc[p].fetched # NULL
    /\ ~KbFresh(loc[p].preKb[1], loc[p].kbNow)
    /\ calls[p].http = 1
    /\ calls[p].fetchFn = 1

\* The request's ensureVectors found the vector cache stale, embedded every
\* entry of its KB with one call each, and stored its own generation
RecomputedOwnVectors(p) ==
    /\ loc[p].vecs # NULL
    /\ VecStale(loc[p].preVec[1], loc[p].kb[1], loc[p].vecNow)
    /\ calls[p].embedKB = Len(loc[p].kb[1].entries)
    /\ loc[p].vecs[1] = NewVecCache(loc[p].vecNow, loc[p].kb[1],
                                    ExpectedVectors(loc[p].kb[1].entries))

\* C24: nothing guards a refresh against another one. A request whose loadKB
\* finds the KB cache stale makes its own fetch, and a request whose
\* ensureVectors finds the vector cache stale makes its own recomputation,
\* one embedding call per entry of its KB, whatever another request is doing
\* or has stored since; and each stores what it got: the step that ends a
\* fetch or a recomputation replaces the cache with that request's result.
C24_NoRefreshGuard ==
    /\ [](\A p \in Procs :
            /\ loc[p].preKb # NULL /\ ~KbFresh(loc[p].preKb[1], loc[p].kbNow)
               => calls[p].http = 1
            /\ loc[p].fetched # NULL => FetchedOwnKB(p)
            /\ loc[p].vecs # NULL
               /\ VecStale(loc[p].preVec[1], loc[p].kb[1], loc[p].vecNow)
               => RecomputedOwnVectors(p))
    /\ [][\A p \in Procs :
            /\ pc[p] = "fetch" /\ pc'[p] # "fetch" =>
                  kbCache' = NewKbCache(loc[p].kbNow, loc'[p].fetched[1])
            /\ pc[p] = "embedEntry" /\ pc'[p] = "embedQuery" =>
                  vecCache' = loc'[p].vecs[1]]_vars

\* The stampede: two requests found the same stale KB cache and the same
\* stale vector cache, each fetched the KB and each embedded every entry of
\* its KB, and each stored its result
C24_Witness ==
    \E p, q \in Procs :
        /\ p # q
        /\ pc[p] = "done" /\ pc[q] = "done"
        /\ loc[p].preKb = loc[q].preKb
        /\ loc[p].preVec = loc[q].preVec
        /\ FetchedOwnKB(p) /\ FetchedOwnKB(q)
        /\ RecomputedOwnVectors(p) /\ RecomputedOwnVectors(q)
        /\ Len(loc[p].kb[1].entries) = 2
        /\ calls[p].embedKB + calls[q].embedKB = 2 * Len(loc[p].kb[1].entries)

----------------------------------------------------------------------------
(* C25 *)

\* The entries of the KB the request loaded (none before it has one)
EntryCount(p) == IF loc[p].kb = NULL THEN 0 ELSE Len(loc[p].kb[1].entries)

\* C25: a request makes at most one transcription call, at most one
\* embedding call for its query and at most one embedding call per entry of
\* the KB it loaded. The embedding calls are made one after the other: while
\* a call of the recomputation is awaited it is the only one not returned
\* (calls made = vectors pushed + 1) and the query has not been embedded;
\* the query is embedded only once ensureVectors has returned, when every
\* call of the recomputation has returned (none, or one per entry).
C25_CallsSequential ==
    \A p \in Procs :
        /\ calls[p].stt <= 1
        /\ calls[p].embedQ <= 1
        /\ calls[p].embedKB <= EntryCount(p)
        /\ pc[p] = "transcribe" =>
              calls[p].stt = 1 /\ calls[p].embedKB = 0 /\ calls[p].embedQ = 0
        /\ pc[p] = "embedEntry" =>
              /\ calls[p].embedKB = Len(loc[p].vectors) + 1
              /\ calls[p].embedQ = 0
              /\ loc[p].vecs = NULL
        /\ calls[p].embedQ = 1 =>
              /\ loc[p].vecs # NULL
              /\ calls[p].embedKB = Len(loc[p].vectors)
              /\ calls[p].embedKB \in {0, EntryCount(p)}
        /\ pc[p] = "embedQuery" => calls[p].embedQ = 1

\* A spoken question has been transcribed, every entry of a KB of at least
\* two entries has been embedded, and the embedding of the query is awaited
C25_Witness ==
    \E p \in Procs :
        /\ pc[p] = "embedQuery"
        /\ calls[p].stt = 1
        /\ EntryCount(p) >= 2
        /\ calls[p].embedKB = EntryCount(p)
        /\ calls[p].embedQ = 1

----------------------------------------------------------------------------
(* C26 *)

\* C26, as stated: no step replaces a cache's generation by an older one:
\* the timestamp of the KB cache and the timestamp of the vector cache never
\* decrease.
C26_AsStated ==
    [][/\ kbCache'.at >= kbCache.at
       /\ vecCache'.at >= vecCache.at]_vars

----------------------------------------------------------------------------
(* C27 *)

\* The request is between its arrival and its response
InFlight(p) == pc[p] \notin {"idle", "done"}

\* C27: every request that arrives gets a response in the end, when every
\* call it awaits settles, and it gets exactly one: a request that has ended
\* has sent one response, on every path (preflight, method not allowed,
\* missing audio, empty query, empty KB, no match, answer, error), and a
\* request in flight has sent none.
C27_OneResponse ==
    /\ [](\A p \in Procs :
            /\ loc[p].sent <= 1
            /\ pc[p] = "done" =>
                  /\ loc[p].sent = 1
                  /\ res[p].status \in {200, 204, 400, 405, 500}
                  /\ loc[p].path \in {"options", "method", "noAudio", "clarify",
                                      "empty", "noMatch", "answer", "error"}
            /\ pc[p] # "done" => loc[p].sent = 0 /\ res[p].status = 0)
    /\ \A p \in Serial : InFlight(p) ~> (pc[p] = "done" /\ loc[p].sent = 1)

\* A request whose recomputation failed after an embedding has been answered
C27_Witness ==
    \E p \in Serial :
        /\ pc[p] = "done"
        /\ loc[p].sent = 1
        /\ loc[p].failed = "ensureVectors"
        /\ loc[p].vectors # <<>>
        /\ res[p].status = 500

====
